---- MODULE Spec2Model ----
(***************************************************************************)
(* State-machine model of the FMCSA scraper's ingestion pipeline:          *)
(*   - src/src/orchestrator.ts : processUsdot, dbWriterWorker (flushBatch, *)
(*     flushInterval, handleShutdown, signal handlers), main               *)
(*   - src/src/database.ts     : bulkInsertBatch, bulkInsertSnapshots      *)
(*     (per-row variant, lines 37-146; multi-row variant, lines 256-335)   *)
(*   - src/src/network.ts, src/unnamed/part_000 : fetchHtml                *)
(*   - src/unnamed/part_001 (config), orchestrator.ts : the entry point,   *)
(*     loadTodoList and the start of main                                  *)
(*                                                                         *)
(* Node.js runs one callback at a time.  An action of this model is one    *)
(* macrotask (an I/O completion, a timer, a signal) together with the      *)
(* promise continuations it makes runnable; the two continuations of main  *)
(* are separate actions that take priority over every macrotask            *)
(* (MicrotaskPending).                                                     *)
(***************************************************************************)
EXTENDS Integers, Sequences, FiniteSets, Bags, TLC

\* ---------------------------------------------------------------- bounds
NumItems == 3          \* work items of a run (todoList.length)
MaxSignals == 2        \* termination signals delivered in a run
ConcurrencyCfg == 2    \* value of the CONCURRENCY setting in Init
BatchSizeCfg == 2      \* value of the BATCH_SIZE setting in Init
MaxRetriesCfg == 3     \* value of the MAX_RETRIES setting
MaxInFlight == 2       \* earlier writer: commits in flight at one time
MaxLines == 3          \* lines of the input file

\* ------------------------------------------------------ program constants
TICK_MS == 1000
MAX_RETRIES == MaxRetriesCfg
RETRY_DELAY_MS == 1000
SHORT_DELAY_MS == 200
LONG_DELAY_MS == 2000

Items == 1..NumItems
ScenarioItems == 1..8

\* The page fetched for item i carries identifier UsdotOf(i).  Work items
\* are distinct strings, but the identifier is read from the page: item 3
\* (say "0001") gets the page of carrier 1, with different field values.
UsdotOf(i) == IF i = 3 THEN 1 ELSE i

\* A Snapshot: its primary identifier and (src) the rest of its fields.
Snapshot(i) == [usdot_number |-> UsdotOf(i), src |-> i]

VARIABLES
  CONCURRENCY,    \* config: PQueue concurrency
  BATCH_SIZE,     \* config: size threshold
  dbVariant,      \* which bulkInsertSnapshots of database.ts is linked
  pending,        \* jobQueue: items not started yet
  running,        \* jobQueue: items whose processUsdot awaits fetchHtml
  stats,          \* stats.scraped / failed / saved / errors
  writeBatch,     \* the shared buffer
  flushing,       \* dbWriterWorker.flushing
  stopped,        \* dbWriterWorker.stopped
  timerOn,        \* flushInterval not yet cleared
  sinceFlush,     \* Date.now() - lastFlushTime, saturated at FLUSH_INTERVAL_MS
  commits,        \* bulkInsertBatch calls in flight
  shutdownPc,     \* position of the first handleShutdown invocation
  resolved,       \* the promise returned by dbWriterWorker is resolved
  mainPc,         \* position of main
  poolState,      \* pg Pool: open / ending / closed
  store,          \* table snapshots: usdot_number -> row (0 = no row)
  signals,        \* termination signals delivered so far
  appended,       \* history: bag of records pushed to writeBatch
  drained,        \* history: bag of records spliced out by flushBatch
  committed,      \* history: bag of records of batches whose commit succeeded
  dropped,        \* history: bag of records of batches whose commit failed
  shutdownFlushes,\* history: flushBatch('shutdown') calls that drained
  sigSnap,        \* history: <<#running, #writeBatch>> at the first signal
  waited,         \* history: ticks since the last append that left the
                  \*   buffer undrained (-1: not recorded)
  netVariant,     \* which fetchHtml is linked: network.ts or its SOCKS variant
  fetchPc,        \* position of one fetchHtml call
  attempt,        \* fetchHtml: the loop variable
  agentSession,   \* fetchHtml: session token of the proxy agent in use
  sessionsMade,   \* session tokens generated so far
  fetchLog,       \* history: one record per attempt of the call
  fetchResult,    \* what the call returned
  env,            \* process.env: the settings read by the config module
  argv,           \* process.argv: the command-line flags
  config,         \* the constants the config module exported when imported
  csvLines,       \* the lines of INPUT_FILE
  todoList,       \* what loadTodoList returned
  queryFailed,    \* history: the persisted-identifier query was rejected
  prevCommitted,  \* history: work items whose record an earlier run committed
  fetchCalls,     \* history: fetchHtml calls per work item (<<>>: not recorded)
  poolEndCalls    \* history: calls of pool.end() made by main

\* config.ts line 44, as imported by orchestrator.ts and network.ts.
TEST_MODE == config.TEST_MODE

\* orchestrator.ts line 107.
FLUSH_INTERVAL_MS == IF TEST_MODE THEN 2000 ELSE 5000

\* The time threshold plus one tick interval, in ticks.
WaitLimit == (FLUSH_INTERVAL_MS + TICK_MS) \div TICK_MS

startVars == <<env, argv, config, csvLines, todoList, queryFailed, prevCommitted>>
cfgVars == <<CONCURRENCY, BATCH_SIZE, dbVariant, netVariant>>
fetchVars == <<fetchPc, attempt, agentSession, sessionsMade, fetchLog, fetchResult>>
poolVars == <<pending, running>>
writerVars == <<writeBatch, flushing, stopped, timerOn, sinceFlush, commits,
                shutdownPc, resolved, stats, drained, committed, dropped,
                shutdownFlushes>>
vars == <<CONCURRENCY, BATCH_SIZE, dbVariant, pending, running, stats,
          writeBatch, flushing, stopped, timerOn, sinceFlush, commits,
          shutdownPc, resolved, mainPc, poolState, store, signals, appended,
          drained, committed, dropped, shutdownFlushes, sigSnap, waited,
          netVariant, fetchPc, attempt, agentSession, sessionsMade, fetchLog,
          fetchResult, env, argv, config, csvLines, todoList, queryFailed,
          prevCommitted, fetchCalls, poolEndCalls>>

\* ---------------------------------------------------------------- helpers
Min(a, b) == IF a < b THEN a ELSE b

Range(s) == {s[k] : k \in DOMAIN s}

SeqToBag(s) == [r \in Range(s) |-> Cardinality({k \in DOMAIN s : s[k] = r})]

RemoveAt(s, k) == SubSeq(s, 1, k - 1) \o SubSeq(s, k + 1, Len(s))

\* --------------------------------------------------------- database.ts
\* recordToValues: null (here <<>>) when the trimmed identifier is empty.
recordToValues(record) ==
  IF record.usdot_number = 0 THEN <<>> ELSE <<record>>

RECURSIVE BuildRows(_)
BuildRows(records) ==
  IF records = <<>> THEN <<>>
  ELSE recordToValues(Head(records)) \o BuildRows(Tail(records))

\* INSERT ... ON CONFLICT (usdot_number) DO UPDATE SET <all fields>
Upsert(tbl, row) == [tbl EXCEPT ![row.usdot_number] = row.src]

RECURSIVE ApplyRows(_, _)
ApplyRows(tbl, rows) ==
  IF rows = <<>> THEN tbl
  ELSE ApplyRows(Upsert(tbl, Head(rows)), Tail(rows))

\* PostgreSQL rejects one INSERT ... ON CONFLICT DO UPDATE command that
\* proposes the same constrained value twice (cardinality_violation).
HasDuplicateKey(rows) ==
  \E a, b \in DOMAIN rows : a # b /\ rows[a].usdot_number = rows[b].usdot_number

\* Transaction-level effect of one statement batch on connection c: inside
\* BEGIN..COMMIT the rows stay pending on the connection, outside a
\* transaction every statement commits by itself.
ExecRows(w, k, rows) ==
  IF w.commits[k].txOpen
    THEN [w EXCEPT !.commits[k].txRows = @ \o rows]
    ELSE [w EXCEPT !.store = ApplyRows(@, rows)]

\* bulkInsertBatch up to its first await (pool.connect()).
bulkInsertBatch(records, reason, tbl) ==
  [batch |-> records, caller |-> reason, pc |-> "connect",
   rows |-> <<>>, idx |-> 0, txOpen |-> FALSE, txRows |-> <<>>,
   pre |-> tbl, fault |-> FALSE]

\* --------------------------------------------- orchestrator.ts: the writer
\* The writer's state as one value, so that a callback and the promise
\* continuations it triggers compose into one step.
CurW ==
  [writeBatch |-> writeBatch, flushing |-> flushing, stopped |-> stopped,
   timerOn |-> timerOn, sinceFlush |-> sinceFlush, commits |-> commits,
   shutdownPc |-> shutdownPc, resolved |-> resolved, stats |-> stats,
   store |-> store, drained |-> drained, committed |-> committed,
   dropped |-> dropped, shutdownFlushes |-> shutdownFlushes]

SetW(w) ==
  /\ writeBatch' = w.writeBatch
  /\ flushing' = w.flushing
  /\ stopped' = w.stopped
  /\ timerOn' = w.timerOn
  /\ sinceFlush' = w.sinceFlush
  /\ commits' = w.commits
  /\ shutdownPc' = w.shutdownPc
  /\ resolved' = w.resolved
  /\ stats' = w.stats
  /\ store' = w.store
  /\ drained' = w.drained
  /\ committed' = w.committed
  /\ dropped' = w.dropped
  /\ shutdownFlushes' = w.shutdownFlushes

\* Array.prototype.splice(start, deleteCount): the removed elements and
\* what is left in the array.
SpliceRemoved(a, start, deleteCount) ==
  SubSeq(a, start + 1, Min(start + deleteCount, Len(a)))

\* Faulty variant of SpliceRest: the array is copied (slice) but not emptied.
SpliceRestKeepsAll(a, start, deleteCount) == a

SpliceRest(a, start, deleteCount) ==
  SubSeq(a, 1, start) \o SubSeq(a, start + deleteCount + 1, Len(a))

\* Faulty variant of flushBatch: the commit-in-progress flag is not consulted.
flushBatchIgnoresFlag(w, reason) ==
  IF Len(w.writeBatch) = 0 THEN w
  ELSE LET toInsert == SpliceRemoved(w.writeBatch, 0, Len(w.writeBatch))
       IN [w EXCEPT
             !.flushing = TRUE,
             !.writeBatch = SpliceRest(@, 0, Len(@)),
             !.drained = @ (+) SeqToBag(toInsert),
             !.shutdownFlushes = IF reason = "shutdown" THEN @ + 1 ELSE @,
             !.commits = Append(@, bulkInsertBatch(toInsert, reason, w.store))]

\* flushBatch, lines 110-116: guard, set the flag, splice, start the commit.
flushBatch(w, reason) ==
  IF w.flushing \/ Len(w.writeBatch) = 0 THEN w
  ELSE LET toInsert == SpliceRemoved(w.writeBatch, 0, Len(w.writeBatch))
       IN [w EXCEPT
             !.flushing = TRUE,
             !.writeBatch = SpliceRest(@, 0, Len(@)),
             !.drained = @ (+) SeqToBag(toInsert),
             !.shutdownFlushes = IF reason = "shutdown" THEN @ + 1 ELSE @,
             !.commits = Append(@, bulkInsertBatch(toInsert, reason, w.store))]

\* Faulty variant of handleShutdownLoop: no wait for a commit in flight; the flush
\* is attempted and the handler returns.
handleShutdownLoopNoWait(w) ==
  IF w.flushing \/ Len(w.writeBatch) = 0
    THEN [w EXCEPT !.shutdownPc = "returned", !.resolved = TRUE]
    ELSE [flushBatch(w, "shutdown") EXCEPT !.shutdownPc = "flush"]

\* handleShutdown, lines 151-159: one pass of the while loop, up to its next
\* await or to the return (after which the caller calls resolve()).
handleShutdownLoop(w) ==
  IF w.flushing THEN [w EXCEPT !.shutdownPc = "sleep"]
  ELSE IF Len(w.writeBatch) = 0
    THEN [w EXCEPT !.shutdownPc = "returned", !.resolved = TRUE]
    ELSE [flushBatch(w, "shutdown") EXCEPT !.shutdownPc = "flush"]

\* Faulty variant of handleShutdown: the interval timer is not cleared.
handleShutdownKeepsTimer(w) ==
  IF w.stopped THEN [w EXCEPT !.resolved = TRUE]
  ELSE handleShutdownLoop([w EXCEPT !.stopped = TRUE])

\* Faulty variant of handleShutdown: the writer stops without a final flush.
handleShutdownNoFlush(w) ==
  [w EXCEPT !.stopped = TRUE, !.timerOn = FALSE, !.resolved = TRUE]

\* handleShutdown as called by dbWriterStop and by the SIGINT / SIGTERM
\* handlers, each of which calls resolve() once it returns (lines 164-177).
handleShutdown(w) ==
  IF w.stopped THEN [w EXCEPT !.resolved = TRUE]
  ELSE handleShutdownLoop([w EXCEPT !.stopped = TRUE, !.timerOn = FALSE])

\* Faulty variant of flushBatchOk: the commit is counted as one saved record.
flushBatchOkCountsOne(w, k, count) ==
  LET c == w.commits[k]
      w1 == [w EXCEPT !.commits = RemoveAt(@, k),
                      !.stats.saved = @ + 1,
                      !.sinceFlush = 0,
                      !.flushing = FALSE,
                      !.committed = @ (+) SeqToBag(c.batch)]
  IN IF c.caller = "shutdown" THEN handleShutdownLoop(w1) ELSE w1

\* flushBatch after `await bulkInsertBatch` returned count (lines 117-118,
\* 132), then the awaiting caller.
flushBatchOk(w, k, count) ==
  LET c == w.commits[k]
      w1 == [w EXCEPT !.commits = RemoveAt(@, k),
                      !.stats.saved = @ + count,
                      !.sinceFlush = 0,
                      !.flushing = FALSE,
                      !.committed = @ (+) SeqToBag(c.batch)]
  IN IF c.caller = "shutdown" THEN handleShutdownLoop(w1) ELSE w1

\* Faulty variant of flushBatchErr: no finally block, the commit-in-progress
\* flag stays set after a failed commit.
flushBatchErrKeepsFlag(w, k) ==
  LET c == w.commits[k]
      w1 == [w EXCEPT !.commits = RemoveAt(@, k),
                      !.stats.errors = @ + 1,
                      !.sinceFlush = 0,
                      !.dropped = @ (+) SeqToBag(c.batch)]
  IN IF c.caller = "shutdown" THEN handleShutdownLoop(w1) ELSE w1

\* Faulty variant of flushBatchErr: the failed batch is put back into writeBatch.
flushBatchErrRequeues(w, k) ==
  LET c == w.commits[k]
      w1 == [w EXCEPT !.commits = RemoveAt(@, k),
                      !.stats.errors = @ + 1,
                      !.sinceFlush = 0,
                      !.flushing = FALSE,
                      !.writeBatch = c.batch \o @,
                      !.dropped = @ (+) SeqToBag(c.batch)]
  IN IF c.caller = "shutdown" THEN handleShutdownLoop(w1) ELSE w1

\* flushBatch after `await bulkInsertBatch` threw (lines 119-133), then the
\* awaiting caller.
flushBatchErr(w, k) ==
  LET c == w.commits[k]
      w1 == [w EXCEPT !.commits = RemoveAt(@, k),
                      !.stats.errors = @ + 1,
                      !.sinceFlush = 0,
                      !.flushing = FALSE,
                      !.dropped = @ (+) SeqToBag(c.batch)]
  IN IF c.caller = "shutdown" THEN handleShutdownLoop(w1) ELSE w1

\* ------------------------------------------------- network.ts: fetchHtml
\* What one axios.post meets: an HTTP response with a status, or an error
\* (status 0) that is an AxiosError with a code and a message, or some
\* other exception.
StatusResponse(n) == [status |-> n, axios |-> FALSE, code |-> "", message |-> ""]

ErrorResponse(ax, c, m) == [status |-> 0, axios |-> ax, code |-> c, message |-> m]

Responses ==
  {StatusResponse(n) : n \in {200, 404, 403, 429, 500, 400}}
    \cup {ErrorResponse(TRUE, "ECONNABORTED", "timeout of 15000ms exceeded"),
          ErrorResponse(TRUE, "ETIMEDOUT", "connect ETIMEDOUT"),
          ErrorResponse(TRUE, "ECONNREFUSED", "connect ECONNREFUSED"),
          ErrorResponse(TRUE, "ENOTFOUND", "getaddrinfo ENOTFOUND"),
          ErrorResponse(TRUE, "ECONNRESET", "socket hang up"),
          ErrorResponse(TRUE, "EPROTO", "write EPROTO"),
          ErrorResponse(TRUE, "", "Socket closed"),
          ErrorResponse(FALSE, "", "TypeError")}

\* String.prototype.includes on the strings that occur above.
Includes(s, sub) ==
  <<s, sub>> \in {<<"timeout of 15000ms exceeded", "timeout">>,
                  <<"ECONNRESET", "RESET">>,
                  <<"EPROTO", "EPROTO">>,
                  <<"Socket closed", " closed">>}

\* validateStatus: (status) => status < 500.
validateStatus(status) == status < 500

\* axios.post settles: resolved with the response when validateStatus
\* accepts its status, rejected with an AxiosError (ERR_BAD_RESPONSE)
\* when it does not, rejected with the error when no response arrived.
axiosPost(r) ==
  IF r.status = 0 THEN [resolved |-> FALSE, status |-> 0, err |-> r]
  ELSE IF validateStatus(r.status)
    THEN [resolved |-> TRUE, status |-> r.status, err |-> r]
    ELSE [resolved |-> FALSE, status |-> r.status,
          err |-> [status |-> r.status, axios |-> TRUE,
                   code |-> "ERR_BAD_RESPONSE",
                   message |-> "Request failed with status code"]]

\* The two ways an attempt leaves the loop body.
Return(res) == [do |-> "return", result |-> res, delay |-> 0]

Retry(ms) == [do |-> "retry", result |-> "none", delay |-> ms]

\* Faulty variant of retryOrGiveUp: the attempt number is not consulted, a
\* failed attempt always waits for another one.
retryOrGiveUpAlwaysRetries(att) == Retry(RETRY_DELAY_MS)

\* network.ts: `if (attempt < MAX_RETRIES - 1) { wait; continue; } return null`.
retryOrGiveUp(att) ==
  IF att < MAX_RETRIES - 1 THEN Retry(RETRY_DELAY_MS) ELSE Return("null")

\* Faulty variant of fetchHtmlCatch: an exception that is no AxiosError is
\* thrown on to the caller.
fetchHtmlCatchRethrows(err, att) ==
  IF err.axios THEN retryOrGiveUp(att)
  ELSE [do |-> "throw", result |-> "none", delay |-> 0]

\* network.ts, catch block (lines 134-216).
fetchHtmlCatch(err, att) ==
  IF err.axios
    THEN IF err.code = "ECONNABORTED" \/ Includes(err.message, "timeout")
           THEN retryOrGiveUp(att)
         ELSE IF err.code \in {"ECONNREFUSED", "ENOTFOUND", "ETIMEDOUT"}
           THEN retryOrGiveUp(att)
         ELSE retryOrGiveUp(att)
    ELSE retryOrGiveUp(att)

\* Faulty variant of fetchHtmlTry: a 404 is retried like a 403.
fetchHtmlTryRetries404(p, att) ==
  IF ~p.resolved THEN fetchHtmlCatch(p.err, att)
  ELSE IF p.status = 200 THEN Return("html")
  ELSE IF p.status \in {404, 403, 429} THEN retryOrGiveUp(att)
  ELSE IF p.status >= 500 THEN retryOrGiveUp(att)
  ELSE Return("null")

\* network.ts, one pass of the loop body after axios.post settled
\* (lines 86-133, then the catch block).
fetchHtmlTry(p, att) ==
  IF ~p.resolved THEN fetchHtmlCatch(p.err, att)
  ELSE IF p.status = 200 THEN Return("html")
  ELSE IF p.status = 404 THEN Return("null")
  ELSE IF p.status = 403 \/ p.status = 429 THEN retryOrGiveUp(att)
  ELSE IF p.status >= 500 THEN retryOrGiveUp(att)
  ELSE Return("null")

\* SOCKS variant, catch block (part_000 lines 91-109): on the last attempt
\* nothing is awaited, the loop ends and null is returned (line 112).
fetchHtmlSocksCatch(err, att) ==
  LET isLast == att >= MAX_RETRIES - 1
      msg == IF err.axios
               THEN (IF err.code # "" THEN err.code ELSE err.message)
               ELSE err.message
  IN IF ~isLast
       THEN IF Includes(msg, "RESET") \/ Includes(msg, "EPROTO")
                 \/ Includes(msg, " closed")
              THEN Retry(SHORT_DELAY_MS)
              ELSE Retry(LONG_DELAY_MS)
       ELSE Return("null")

\* SOCKS variant, one pass of the loop body after axios.post settled
\* (part_000 lines 82-90, then the catch block): every status other than
\* 200 and 404 is thrown as new Error(`HTTP ${status}`).
fetchHtmlSocksTry(p, att) ==
  IF ~p.resolved THEN fetchHtmlSocksCatch(p.err, att)
  ELSE IF p.status = 200 THEN Return("html")
  ELSE IF p.status = 404 THEN Return("null")
  ELSE fetchHtmlSocksCatch(ErrorResponse(FALSE, "", "Error: HTTP"), att)

\* getRandomSessionId (network.ts 14-21), randomBytes(4) (part_000 24): a
\* token that was not generated before.
getRandomSessionId(made) == made + 1

\* The session of the agent used by the attempt that starts: network.ts
\* builds its agent once, before the loop (line 67); the SOCKS variant
\* builds one at the top of every pass (part_000 lines 59-69).
agentForAttempt(variant, att, current, made) ==
  IF variant = "http" /\ att > 0 THEN current ELSE getRandomSessionId(made)

InitFetchIdle ==
  /\ fetchPc = "idle"
  /\ attempt = 0
  /\ agentSession = 0
  /\ sessionsMade = 0
  /\ fetchLog = <<>>
  /\ fetchResult = "none"

\* ------------------------------------------------ config.ts (part_001)
\* Settings are strings of process.env; "" stands for an unset variable
\* (`process.env.X || default` treats both alike).
\* String.prototype.toLowerCase / toUpperCase / trim and parseInt(s, 10) on
\* the strings that occur in the model.
toLowerCase(s) ==
  CASE s \in {"True", "TRUE"} -> "true"
    [] s = "False" -> "false"
    [] OTHER -> s

toUpperCase(s) ==
  CASE s = "abc" -> "ABC"
    [] OTHER -> s

trim(s) ==
  CASE s = " 2 " -> "2"
    [] OTHER -> s

NumberTexts == <<"1", "2", "3", "4", "5", "6", "7", "8">>

parseInt(s) ==
  CASE s = "0" -> 0
    [] s = "25" -> 25
    [] s = "100" -> 100
    [] s = "200" -> 200
    [] OTHER -> CHOOSE n \in DOMAIN NumberTexts : NumberTexts[n] = s

\* `process.env.X || d`.
envOr(v, d) == IF v # "" THEN v ELSE d

\* Line 44.
configTestMode(e) == toLowerCase(e.TEST_MODE) = "true"

\* Line 47.
rawConcurrency(e) == parseInt(envOr(e.CONCURRENCY, "200"))

\* Line 48.
useProxy(e) ==
  ~configTestMode(e) /\ e.PROXY_URL # "" /\ e.PROXY_USER_BASE # ""
    /\ e.PROXY_PASS # ""

\* Line 41.
configProxyMaxConcurrency(e) == parseInt(envOr(e.PROXY_MAX_CONCURRENCY, "25"))

\* Faulty variant of configConcurrency: the proxy cap is not applied.
configConcurrencyUncapped(e) ==
  IF configTestMode(e) THEN 1 ELSE rawConcurrency(e)

\* Lines 49-53.
configConcurrency(e) ==
  IF configTestMode(e) THEN 1
  ELSE IF useProxy(e)
    THEN Min(rawConcurrency(e), configProxyMaxConcurrency(e))
    ELSE rawConcurrency(e)

\* Lines 63-65; undefined outside test mode, here 0 (as falsy as undefined
\* in the only test that reads it, orchestrator.ts line 86).
configTestLimit(e) ==
  IF configTestMode(e) THEN parseInt(envOr(e.TEST_LIMIT, "100")) ELSE 0

\* The constants the module exports, evaluated once, when it is imported.
loadConfig(e) ==
  [TEST_MODE |-> configTestMode(e),
   TEST_LIMIT |-> configTestLimit(e),
   PROXY_URL |-> e.PROXY_URL,
   PROXY_USER_BASE |-> e.PROXY_USER_BASE,
   PROXY_PASS |-> e.PROXY_PASS,
   PROXY_MAX_CONCURRENCY |-> configProxyMaxConcurrency(e),
   CONCURRENCY |-> configConcurrency(e)]

\* getProxyAgent (network.ts 27-44) and the SOCKS variant's test (part_000
\* line 61): whether a request goes out through a proxy agent.
getProxyAgent ==
  ~(TEST_MODE \/ config.PROXY_URL = "" \/ config.PROXY_USER_BASE = ""
      \/ config.PROXY_PASS = "")

\* ------------------------------------- orchestrator.ts: loadTodoList
\* The line of INPUT_FILE that names work item i: distinct strings, item 3
\* being another spelling of carrier 1 (Number("0001") is not NaN).
ItemText == <<"1", "2", "0001", "4", "5", "6", "7", "8">>

ItemOf(s) == CHOOSE i \in DOMAIN ItemText : ItemText[i] = s

\* usdot_number::text of the row with key u: the identifier as the page
\* printed it (parser.ts 475, 645).
KeyText(u) == NumberTexts[u]

\* isNaN(Number(s)) for a trimmed, non-empty line.
isNaNNumber(s) == s \notin Range(ItemText) \cup Range(NumberTexts)

\* Faulty variant of SetAdd: the identifiers are collected in an array.
SetAddKeepsDuplicates(seq, x) == Append(seq, x)

\* Set.prototype.add on a Set kept in insertion order (line 65).
SetAdd(seq, x) == IF x \in Range(seq) THEN seq ELSE Append(seq, x)

\* allUsdots after the first n lines (lines 53-67): the header is skipped
\* only on the first line; a line is kept when its trimmed text is not
\* empty and is a number.
RECURSIVE readCsv(_, _)
readCsv(lines, n) ==
  IF n = 0 THEN <<>>
  ELSE LET line == lines[n]
           usdot == trim(line)
           prev == readCsv(lines, n - 1)
       IN IF n = 1 /\ toUpperCase(trim(line)) = "DOT_NUMBER" THEN prev
          ELSE IF usdot # "" /\ ~isNaNNumber(usdot) THEN SetAdd(prev, usdot)
          ELSE prev

\* Lines 72-80: the identifiers of the rows of snapshots, or the empty set
\* when the query was rejected.
existingSet(ok, tbl) ==
  IF ok THEN {KeyText(u) : u \in {k \in DOMAIN tbl : tbl[k] # 0}} ELSE {}

\* Faulty variant of capTodoList: the cap keeps the last TEST_LIMIT entries.
capTodoListKeepsLast(todo, cfg) ==
  IF cfg.TEST_MODE /\ cfg.TEST_LIMIT # 0 /\ Len(todo) > cfg.TEST_LIMIT
    THEN SubSeq(todo, Len(todo) - cfg.TEST_LIMIT + 1, Len(todo))
    ELSE todo

\* Lines 85-89.
capTodoList(todo, cfg) ==
  IF cfg.TEST_MODE /\ cfg.TEST_LIMIT # 0 /\ Len(todo) > cfg.TEST_LIMIT
    THEN SubSeq(todo, 1, cfg.TEST_LIMIT)
    ELSE todo

\* Line 82.
filterTodo(all, existing) == SelectSeq(all, LAMBDA usdot : usdot \notin existing)

\* The value loadTodoList returns (lines 42-92).
loadTodoList(lines, ok, tbl, cfg) ==
  capTodoList(filterTodo(readCsv(lines, Len(lines)), existingSet(ok, tbl)), cfg)

\* Faulty variant of loadTodoListSettles: no try / catch around the query.
loadTodoListSettlesNoCatch(ok) == IF ok THEN "fulfilled" ELSE "rejected"

\* The settled state of the promise loadTodoList returns: the query is
\* inside try / catch and the catch block only logs (lines 73-80).
loadTodoListSettles(ok) == IF ok THEN "fulfilled" ELSE "fulfilled"

\* ------------------------------------------------------------------ Init
\* Faulty variant of jobQueueConcurrency: the queue is built without a limit.
jobQueueConcurrencyUnlimited == NumItems + CONCURRENCY

\* new PQueue({ concurrency: CONCURRENCY }), line 282.
jobQueueConcurrency == CONCURRENCY

\* jobQueue.add(job): the job starts at once while fewer than `concurrency`
\* jobs are running, and waits in the queue otherwise.
jobQueueAdd(q, item) ==
  IF Cardinality(q.running) < jobQueueConcurrency
    THEN [q EXCEPT !.running = @ \cup {item}]
    ELSE [q EXCEPT !.pending = Append(@, item)]

\* The loop of lines 295-297 over the first n work items.
RECURSIVE jobQueueFeed(_)
jobQueueFeed(n) ==
  IF n = 0 THEN [running |-> {}, pending |-> <<>>]
  ELSE jobQueueAdd(jobQueueFeed(n - 1), n)

InitWriter ==
  /\ flushing = FALSE
  /\ stopped = FALSE
  /\ timerOn = TRUE
  /\ sinceFlush = 0
  /\ commits = <<>>
  /\ shutdownPc = "none"
  /\ resolved = FALSE
  /\ mainPc = "scraping"
  /\ poolState = "open"
  /\ store = [u \in ScenarioItems |-> 0]
  /\ signals = 0
  /\ drained = EmptyBag
  /\ committed = EmptyBag
  /\ dropped = EmptyBag
  /\ shutdownFlushes = 0
  /\ sigSnap = <<>>

\* The start-up behind a pipeline that is already running: no flag, no
\* test mode, no proxy, the CONCURRENCY setting naming the queue's limit, an
\* input file listing the n work items, none of them persisted.
InitStarted(n) ==
  /\ env = [TEST_MODE |-> "", TEST_LIMIT |-> "",
            CONCURRENCY |-> NumberTexts[CONCURRENCY],
            PROXY_MAX_CONCURRENCY |-> "", PROXY_URL |-> "",
            PROXY_USER_BASE |-> "", PROXY_PASS |-> ""]
  /\ argv = {}
  /\ config = loadConfig(env)
  /\ csvLines = [k \in 1..n |-> ItemText[k]]
  /\ todoList = csvLines
  /\ queryFailed = FALSE
  /\ prevCommitted = {}
  /\ fetchCalls = <<>>
  /\ poolEndCalls = 0

\* main has fed every job to the queue (line 297): PQueue has started the
\* first CONCURRENCY of them, nothing is buffered yet.
InitPipeline ==
  /\ CONCURRENCY = ConcurrencyCfg
  /\ BATCH_SIZE = BatchSizeCfg
  /\ dbVariant \in {"perRow", "multiRow"}
  /\ running = jobQueueFeed(NumItems).running
  /\ pending = jobQueueFeed(NumItems).pending
  /\ writeBatch = <<>>
  /\ appended = EmptyBag
  /\ stats = [scraped |-> 0, failed |-> 0, saved |-> 0, errors |-> 0]
  /\ InitWriter

Init ==
  /\ InitPipeline
  /\ waited = -1
  /\ netVariant = "http"
  /\ InitFetchIdle
  /\ InitStarted(NumItems)

\* The shutdown scenario of the spec (section 8): CONCURRENCY = 5, eight work
\* items; items 1, 2 and 4 have been parsed and sit in writeBatch, below
\* BATCH_SIZE; the other five are mid-fetch; no tick has fired yet.
InitShutdownScenario ==
  /\ CONCURRENCY = 5
  /\ BATCH_SIZE = 4
  /\ dbVariant \in {"perRow", "multiRow"}
  /\ running = {3, 5, 6, 7, 8}
  /\ pending = <<>>
  /\ writeBatch = <<Snapshot(1), Snapshot(2), Snapshot(4)>>
  /\ appended = SetToBag({Snapshot(1), Snapshot(2), Snapshot(4)})
  /\ InitWriter
  /\ stats = [scraped |-> 3, failed |-> 0, saved |-> 0, errors |-> 0]
  /\ waited = -1
  /\ netVariant = "http"
  /\ InitFetchIdle
  /\ InitStarted(8)

\* ------------------------------------------- orchestrator.ts: the workers
\* What processUsdot meets: "valid", a page with a snapshot; "invalid", a
\* page parseHtmlToSnapshot returns null for, as it does for every page
\* without a USDOT Number (parser.ts 475-476); "nohtml", fetchHtml returned
\* null; "throw", an exception.
Outcomes == {"valid", "invalid", "nohtml", "throw"}

\* Faulty variant of processUsdot: a page without a snapshot is not counted.
processUsdotSkipsCount(w, i, outcome) ==
  CASE outcome = "valid" ->
         [w EXCEPT !.writeBatch = Append(@, Snapshot(i)),
                   !.stats.scraped = @ + 1]
    [] outcome = "invalid" -> w
    [] outcome = "nohtml" ->
         [w EXCEPT !.stats.failed = @ + 1]
    [] outcome = "throw" ->
         [w EXCEPT !.stats.failed = @ + 1, !.stats.errors = @ + 1]

\* Faulty variant of processUsdot: no test of the parse result, a page
\* without identifier is pushed as a record whose usdot_number is empty.
processUsdotNoIdTest(w, i, outcome) ==
  CASE outcome = "valid" ->
         [w EXCEPT !.writeBatch = Append(@, Snapshot(i)),
                   !.stats.scraped = @ + 1]
    [] outcome = "invalid" ->
         [w EXCEPT !.writeBatch = Append(@, [usdot_number |-> 0, src |-> i]),
                   !.stats.scraped = @ + 1]
    [] outcome = "nohtml" ->
         [w EXCEPT !.stats.failed = @ + 1]
    [] outcome = "throw" ->
         [w EXCEPT !.stats.failed = @ + 1, !.stats.errors = @ + 1]

\* Faulty variant of processUsdot: a page that yields no record is counted
\* as scraped.
processUsdotCountsInvalid(w, i, outcome) ==
  CASE outcome = "valid" ->
         [w EXCEPT !.writeBatch = Append(@, Snapshot(i)),
                   !.stats.scraped = @ + 1]
    [] outcome = "invalid" ->
         [w EXCEPT !.stats.scraped = @ + 1]
    [] outcome = "nohtml" ->
         [w EXCEPT !.stats.failed = @ + 1]
    [] outcome = "throw" ->
         [w EXCEPT !.stats.failed = @ + 1, !.stats.errors = @ + 1]

\* Terminal outcome of processUsdot(i) (lines 186-226) on the writer state:
\* a record is pushed only when `snapshot && snapshot.usdot_number` holds.
processUsdot(w, i, outcome) ==
  CASE outcome = "valid" ->
         [w EXCEPT !.writeBatch = Append(@, Snapshot(i)),
                   !.stats.scraped = @ + 1]
    [] outcome \in {"invalid", "nohtml"} ->
         [w EXCEPT !.stats.failed = @ + 1]
    [] outcome = "throw" ->
         [w EXCEPT !.stats.failed = @ + 1, !.stats.errors = @ + 1]

\* A macrotask may run only when no promise continuation of main is ready.
MicrotaskPending ==
  \/ mainPc = "scraping" /\ pending = <<>> /\ running = {}
  \/ mainPc = "awaitWriter" /\ resolved

\* The Node process ends when main is done and nothing keeps the loop alive.
Exited ==
  /\ mainPc = "done"
  /\ commits = <<>>
  /\ shutdownPc \notin {"sleep", "flush"}

\* Faulty variant of processUsdotSettles: no catch block, an exception
\* thrown by fetchHtml or parseHtmlToSnapshot rejects the promise.
processUsdotSettlesNoCatch(outcome) ==
  CASE outcome \in {"valid", "invalid", "nohtml"} -> "fulfilled"
    [] outcome = "throw" -> "rejected"

\* The settled state of the promise returned by processUsdot: the whole
\* body is inside try / catch, and the catch block only counts and logs.
processUsdotSettles(outcome) ==
  CASE outcome \in {"valid", "invalid", "nohtml"} -> "fulfilled"
    [] outcome = "throw" -> "fulfilled"

\* PQueue, when a job has settled: the next waiting job is started if the
\* number of running jobs is below the concurrency option.
jobQueueNext(q) ==
  IF q.pending # <<>> /\ Cardinality(q.running) < jobQueueConcurrency
    THEN [running |-> q.running \cup {Head(q.pending)},
          pending |-> Tail(q.pending)]
    ELSE q

\* History of the waiting time of buffered records: ticks fired since the
\* last append without the buffer being drained, counted up to WaitLimit + 1.
WaitedNext(ticked) ==
  waited' = IF waited < 0 THEN waited
            ELSE IF writeBatch' = <<>> \/ appended' # appended THEN 0
            ELSE IF ticked THEN Min(waited + 1, WaitLimit + 1)
            ELSE waited

\* Faulty variant of processUsdotRequeues: an item whose page yields no
\* record is added to the queue again.
processUsdotRequeuesInvalid(outcome) == outcome = "invalid"

\* Whether processUsdot puts its item back on the queue: no branch of it
\* calls jobQueue.add or fetchHtml a second time (lines 184-227).
processUsdotRequeues(outcome) == FALSE

\* History of the fetchHtml calls: one more for every item PQueue starts;
\* `before` are the jobs that were running and still are.
CallsNext(before) ==
  fetchCalls' = IF fetchCalls = <<>> THEN fetchCalls
                ELSE [i \in DOMAIN fetchCalls |->
                        fetchCalls[i] + IF i \in running' \ before THEN 1 ELSE 0]

\* fetchHtml(i) settles; processUsdot finishes; PQueue starts the next job.
\* A rejected job would be an unhandled rejection (main keeps no promise of
\* jobQueue.add), which ends the Node process.
FetchDone(i, outcome) ==
  /\ ~MicrotaskPending
  /\ i \in running
  /\ SetW(processUsdot(CurW, i, outcome))
  /\ appended' = IF outcome = "valid" THEN appended (+) SetToBag({Snapshot(i)})
                 ELSE appended
  /\ LET q == jobQueueNext([running |-> running \ {i},
                            pending |-> IF processUsdotRequeues(outcome)
                                          THEN Append(pending, i)
                                          ELSE pending])
     IN /\ running' = q.running
        /\ pending' = q.pending
  /\ mainPc' = IF processUsdotSettles(outcome) = "rejected" THEN "crashed"
               ELSE mainPc
  /\ UNCHANGED <<cfgVars, fetchVars, startVars, poolEndCalls, poolState, signals,
                 sigSnap>>
  /\ WaitedNext(FALSE)
  /\ CallsNext(running \ {i})

\* ------------------------------------------- orchestrator.ts: the writer
\* Faulty variant of flushInterval: only the time threshold is consulted.
flushIntervalTimeOnly(w) ==
  LET timeSinceLastFlush == Min(w.sinceFlush + TICK_MS, FLUSH_INTERVAL_MS)
      w1 == [w EXCEPT !.sinceFlush = timeSinceLastFlush]
  IN IF Len(w.writeBatch) > 0 /\ timeSinceLastFlush >= FLUSH_INTERVAL_MS
       THEN flushBatch(w1, "tick")
       ELSE w1

\* Faulty variant of flushInterval: any buffered record is flushed at once.
flushIntervalAnyRecord(w) ==
  LET timeSinceLastFlush == Min(w.sinceFlush + TICK_MS, FLUSH_INTERVAL_MS)
      w1 == [w EXCEPT !.sinceFlush = timeSinceLastFlush]
  IN IF Len(w.writeBatch) > 0 THEN flushBatch(w1, "tick") ELSE w1

\* The setInterval callback, lines 136-144.
flushInterval(w) ==
  LET timeSinceLastFlush == Min(w.sinceFlush + TICK_MS, FLUSH_INTERVAL_MS)
      w1 == [w EXCEPT !.sinceFlush = timeSinceLastFlush]
  IN IF Len(w.writeBatch) >= BATCH_SIZE
       THEN flushBatch(w1, "tick")
       ELSE IF Len(w.writeBatch) > 0 /\ timeSinceLastFlush >= FLUSH_INTERVAL_MS
         THEN flushBatch(w1, "tick")
         ELSE w1

Tick ==
  /\ ~MicrotaskPending
  /\ timerOn
  /\ SetW(flushInterval(CurW))
  /\ UNCHANGED <<cfgVars, fetchVars, startVars, fetchCalls, poolEndCalls, poolVars, mainPc, poolState, signals, appended, sigSnap>>
  /\ WaitedNext(TRUE)

\* SIGINT or SIGTERM is delivered: lines 170-177.
Signal(sig) ==
  /\ ~MicrotaskPending
  /\ ~Exited
  /\ signals < MaxSignals
  /\ signals' = signals + 1
  /\ sigSnap' = IF signals = 0 THEN <<Cardinality(running), Len(writeBatch)>>
                ELSE sigSnap
  /\ SetW(handleShutdown(CurW))
  /\ UNCHANGED <<cfgVars, fetchVars, startVars, fetchCalls, poolEndCalls, poolVars, mainPc, poolState, appended>>
  /\ WaitedNext(FALSE)

\* The 50 ms timer of handleShutdown fires (line 153).
ShutdownWake ==
  /\ ~MicrotaskPending
  /\ shutdownPc = "sleep"
  /\ SetW(handleShutdownLoop(CurW))
  /\ UNCHANGED <<cfgVars, fetchVars, startVars, fetchCalls, poolEndCalls, poolVars, mainPc, poolState, signals, appended, sigSnap>>
  /\ WaitedNext(FALSE)

\* ----------------------------------------- database.ts: one batch commit
\* Faulty variant of bulkInsertBatchBegin: the inserts run without BEGIN.
bulkInsertBatchBeginNoTransaction(w, k, ok) ==
  LET rows == BuildRows(w.commits[k].batch)
  IN IF ok
       THEN [w EXCEPT !.commits[k].rows = rows,
                      !.commits[k].pc = IF rows = <<>> THEN "commit" ELSE "insert"]
       ELSE [w EXCEPT !.commits[k].pc = "rollback", !.commits[k].fault = TRUE]

\* bulkInsertBatch after `await client.query('BEGIN')` settles: the call of
\* bulkInsertSnapshots up to its first query, or the jump to the catch.
bulkInsertBatchBegin(w, k, ok) ==
  LET rows == BuildRows(w.commits[k].batch)
  IN IF ok
       THEN [w EXCEPT !.commits[k].txOpen = TRUE,
                      !.commits[k].rows = rows,
                      !.commits[k].pc = IF rows = <<>> THEN "commit" ELSE "insert"]
       ELSE [w EXCEPT !.commits[k].pc = "rollback", !.commits[k].fault = TRUE]

\* bulkInsertSnapshots, per-row variant (lines 94-145): one query settles.
bulkInsertSnapshotsPerRow(w, k, ok) ==
  LET c == w.commits[k]
  IN IF ok
       THEN LET w1 == ExecRows(w, k, <<c.rows[c.idx + 1]>>)
            IN [w1 EXCEPT !.commits[k].idx = @ + 1,
                          !.commits[k].pc =
                             IF c.idx + 1 = Len(c.rows) THEN "commit" ELSE "insert"]
       ELSE [w EXCEPT !.commits[k].pc = "rollback", !.commits[k].fault = TRUE]

\* bulkInsertSnapshots, multi-row variant (lines 262-334): the one query
\* settles.
bulkInsertSnapshotsMultiRow(w, k, ok) ==
  LET c == w.commits[k]
  IN IF ok /\ ~HasDuplicateKey(c.rows)
       THEN LET w1 == ExecRows(w, k, c.rows)
            IN [w1 EXCEPT !.commits[k].idx = Len(c.rows),
                          !.commits[k].pc = "commit"]
       ELSE [w EXCEPT !.commits[k].pc = "rollback",
                      !.commits[k].fault = ~ok]

\* bulkInsertBatch after `await client.query('COMMIT')` settles.
bulkInsertBatchCommit(w, k, ok) ==
  LET c == w.commits[k]
  IN IF ok
       THEN flushBatchOk([w EXCEPT !.store = ApplyRows(@, c.txRows)], k, c.idx)
       ELSE [w EXCEPT !.commits[k].pc = "rollback",
                      !.commits[k].txRows = <<>>,
                      !.commits[k].txOpen = FALSE,
                      !.commits[k].fault = TRUE]

\* bulkInsertBatch after `await client.query('ROLLBACK')` settles: the
\* pending rows are gone whether or not the statement got through, the
\* error is rethrown, the client released.
bulkInsertBatchRollback(w, k, ok) ==
  flushBatchErr([w EXCEPT !.commits[k].txRows = <<>>,
                          !.commits[k].txOpen = FALSE], k)

DbConnect(k, ok) ==
  /\ ~MicrotaskPending
  /\ k \in DOMAIN commits
  /\ commits[k].pc = "connect"
  /\ IF ok /\ poolState = "open"
       THEN SetW([CurW EXCEPT !.commits[k].pc = "begin"])
       ELSE SetW(flushBatchErr([CurW EXCEPT !.commits[k].fault = TRUE], k))
  /\ UNCHANGED <<cfgVars, fetchVars, startVars, fetchCalls, poolEndCalls, poolVars, mainPc, poolState, signals, appended, sigSnap>>
  /\ WaitedNext(FALSE)

DbBegin(k, ok) ==
  /\ ~MicrotaskPending
  /\ k \in DOMAIN commits
  /\ commits[k].pc = "begin"
  /\ SetW(bulkInsertBatchBegin(CurW, k, ok))
  /\ UNCHANGED <<cfgVars, fetchVars, startVars, fetchCalls, poolEndCalls, poolVars, mainPc, poolState, signals, appended, sigSnap>>
  /\ WaitedNext(FALSE)

DbInsert(k, ok) ==
  /\ ~MicrotaskPending
  /\ k \in DOMAIN commits
  /\ commits[k].pc = "insert"
  /\ IF dbVariant = "perRow"
       THEN SetW(bulkInsertSnapshotsPerRow(CurW, k, ok))
       ELSE SetW(bulkInsertSnapshotsMultiRow(CurW, k, ok))
  /\ UNCHANGED <<cfgVars, fetchVars, startVars, fetchCalls, poolEndCalls, poolVars, mainPc, poolState, signals, appended, sigSnap>>
  /\ WaitedNext(FALSE)

DbCommit(k, ok) ==
  /\ ~MicrotaskPending
  /\ k \in DOMAIN commits
  /\ commits[k].pc = "commit"
  /\ SetW(bulkInsertBatchCommit(CurW, k, ok))
  /\ UNCHANGED <<cfgVars, fetchVars, startVars, fetchCalls, poolEndCalls, poolVars, mainPc, poolState, signals, appended, sigSnap>>
  /\ WaitedNext(FALSE)

DbRollback(k, ok) ==
  /\ ~MicrotaskPending
  /\ k \in DOMAIN commits
  /\ commits[k].pc = "rollback"
  /\ SetW(bulkInsertBatchRollback(CurW, k, ok))
  /\ UNCHANGED <<cfgVars, fetchVars, startVars, fetchCalls, poolEndCalls, poolVars, mainPc, poolState, signals, appended, sigSnap>>
  /\ WaitedNext(FALSE)

\* ---------------------------------------------- orchestrator.ts: main
\* jobQueue.onIdle() resolved: lines 301-310.
MainAfterIdle ==
  /\ mainPc = "scraping"
  /\ pending = <<>>
  /\ running = {}
  /\ SetW(handleShutdown(CurW))
  /\ mainPc' = "awaitWriter"
  /\ UNCHANGED <<cfgVars, fetchVars, startVars, fetchCalls, poolEndCalls, poolVars, poolState, signals, appended, sigSnap>>
  /\ WaitedNext(FALSE)

\* Faulty variant of MainAfterWriter: the counters are cleared once the
\* final statistics are printed.
MainAfterWriterResetsStats ==
  /\ mainPc = "awaitWriter"
  /\ resolved
  /\ mainPc' = "poolEnd"
  /\ poolState' = "ending"
  /\ stats' = [scraped |-> 0, failed |-> 0, saved |-> 0, errors |-> 0]
  /\ poolEndCalls' = poolEndCalls + 1
  /\ UNCHANGED <<cfgVars, fetchVars, startVars, fetchCalls, waited, poolVars,
                 writeBatch, flushing, stopped, timerOn, sinceFlush, commits,
                 shutdownPc, resolved, drained, committed, dropped,
                 shutdownFlushes, store, signals, appended, sigSnap>>

\* dbWriterPromise resolved: final statistics, then pool.end() (312-322).
MainAfterWriter ==
  /\ mainPc = "awaitWriter"
  /\ resolved
  /\ mainPc' = "poolEnd"
  /\ poolState' = "ending"
  /\ poolEndCalls' = poolEndCalls + 1
  /\ UNCHANGED <<cfgVars, fetchVars, startVars, fetchCalls, waited, poolVars, writerVars, store, signals, appended, sigSnap>>

\* pool.end() resolves once no client is checked out.
MainPoolEnded ==
  /\ ~MicrotaskPending
  /\ mainPc = "poolEnd"
  /\ \A k \in DOMAIN commits : commits[k].pc = "connect"
  /\ mainPc' = "done"
  /\ poolState' = "closed"
  /\ UNCHANGED <<cfgVars, fetchVars, startVars, fetchCalls, poolEndCalls, waited, poolVars, writerVars, store, signals, appended, sigSnap>>

Next ==
  \/ \E i \in ScenarioItems, o \in Outcomes : FetchDone(i, o)
  \/ Tick
  \/ \E sig \in {"SIGINT", "SIGTERM"} : Signal(sig)
  \/ ShutdownWake
  \/ \E k \in DOMAIN commits, ok \in BOOLEAN : DbConnect(k, ok)
  \/ \E k \in DOMAIN commits, ok \in BOOLEAN : DbBegin(k, ok)
  \/ \E k \in DOMAIN commits, ok \in BOOLEAN : DbInsert(k, ok)
  \/ \E k \in DOMAIN commits, ok \in BOOLEAN : DbCommit(k, ok)
  \/ \E k \in DOMAIN commits, ok \in BOOLEAN : DbRollback(k, ok)
  \/ MainAfterIdle
  \/ MainAfterWriter
  \/ MainPoolEnded

Spec == Init /\ [][Next]_vars

\* The scenario's runs in which everything happens before the first writer
\* tick, the five fetches settle in the order they were started, each with a
\* valid page or none, and the database meets no fault (a statement fails
\* only for what the batch holds): a subset of the program's behaviours,
\* enough to exhibit the stranded records.
NextShutdownScenario ==
  \/ \E i \in ScenarioItems, o \in {"valid", "nohtml"} :
        /\ \A j \in running : i <= j
        /\ FetchDone(i, o)
  \/ \E sig \in {"SIGINT", "SIGTERM"} : Signal(sig)
  \/ \E k \in DOMAIN commits, ok \in {TRUE} : DbConnect(k, ok)
  \/ \E k \in DOMAIN commits, ok \in {TRUE} : DbBegin(k, ok)
  \/ \E k \in DOMAIN commits, ok \in {TRUE} : DbInsert(k, ok)
  \/ \E k \in DOMAIN commits, ok \in {TRUE} : DbCommit(k, ok)
  \/ \E k \in DOMAIN commits, ok \in {TRUE} : DbRollback(k, ok)
  \/ MainAfterIdle
  \/ MainAfterWriter
  \/ MainPoolEnded

SpecShutdownScenario == InitShutdownScenario /\ [][NextShutdownScenario]_vars

\* ------------------------------------- network.ts: one fetchHtml call
pipelineVars == <<CONCURRENCY, BATCH_SIZE, dbVariant, pending, running, stats,
                  writeBatch, flushing, stopped, timerOn, sinceFlush, commits,
                  shutdownPc, resolved, mainPc, poolState, store, signals,
                  appended, drained, committed, dropped, shutdownFlushes,
                  sigSnap, waited, env, argv, config, csvLines, todoList,
                  queryFailed, prevCommitted, fetchCalls, poolEndCalls>>

InitFetch ==
  /\ InitPipeline
  /\ waited = -1
  /\ netVariant \in {"http", "socks"}
  /\ InitFetchIdle
  /\ InitStarted(NumItems)

\* One pass of the retry loop of the linked fetchHtml, from the settled
\* axios.post to the return or to the wait before the next pass.
fetchHtmlStep(variant, r, att) ==
  IF variant = "http" THEN fetchHtmlTry(axiosPost(r), att)
  ELSE fetchHtmlSocksTry(axiosPost(r), att)

\* fetchHtml is called: up to the first axios.post.
FetchCall ==
  /\ fetchPc = "idle"
  /\ fetchPc' = "request"
  /\ attempt' = 0
  /\ agentSession' = agentForAttempt(netVariant, 0, agentSession, sessionsMade)
  /\ sessionsMade' = sessionsMade + 1
  /\ UNCHANGED <<pipelineVars, netVariant, fetchLog, fetchResult>>

\* axios.post settles with r: the rest of the pass.  A pass that ended
\* with an exception leaving fetchHtml would reject the returned promise.
FetchSettle(r) ==
  /\ fetchPc = "request"
  /\ LET o == fetchHtmlStep(netVariant, r, attempt)
     IN /\ fetchLog' = Append(fetchLog, [session |-> agentSession,
                                          response |-> r,
                                          do |-> o.do,
                                          delay |-> o.delay])
        /\ fetchPc' = CASE o.do = "return" -> "returned"
                         [] o.do = "retry" -> "delay"
                         [] OTHER -> "rejected"
        /\ fetchResult' = o.result
  /\ UNCHANGED <<pipelineVars, netVariant, attempt, agentSession, sessionsMade>>

\* The retry delay has elapsed: attempt++, the loop test, the top of the
\* next pass (or `return null` after the loop).
FetchRetry ==
  /\ fetchPc = "delay"
  /\ attempt' = attempt + 1
  /\ IF attempt + 1 < MAX_RETRIES
       THEN /\ fetchPc' = "request"
            /\ agentSession' =
                 agentForAttempt(netVariant, attempt + 1, agentSession, sessionsMade)
            /\ sessionsMade' = IF agentSession' = agentSession THEN sessionsMade
                               ELSE sessionsMade + 1
            /\ fetchResult' = fetchResult
       ELSE /\ fetchPc' = "returned"
            /\ fetchResult' = "null"
            /\ UNCHANGED <<agentSession, sessionsMade>>
  /\ UNCHANGED <<pipelineVars, netVariant, fetchLog>>

NextFetch ==
  \/ FetchCall
  \/ \E r \in Responses : FetchSettle(r)
  \/ FetchRetry

SpecFetch == InitFetch /\ [][NextFetch]_vars

\* ----------------------------------------------- the size-trigger runs
\* BATCH_SIZE is a setting: with a threshold of one record a full buffer
\* can meet a commit in flight within NumItems work items.  The writer's
\* triggers do not depend on which bulkInsertSnapshots is linked.
InitSizeTrigger ==
  /\ CONCURRENCY = ConcurrencyCfg
  /\ BATCH_SIZE = 1
  /\ dbVariant = "multiRow"
  /\ running = jobQueueFeed(NumItems).running
  /\ pending = jobQueueFeed(NumItems).pending
  /\ writeBatch = <<>>
  /\ appended = EmptyBag
  /\ stats = [scraped |-> 0, failed |-> 0, saved |-> 0, errors |-> 0]
  /\ InitWriter
  /\ waited = -1
  /\ netVariant = "http"
  /\ InitFetchIdle
  /\ InitStarted(NumItems)

SpecSizeTrigger == InitSizeTrigger /\ [][Next]_vars

\* ----------------------------------------------- the time-trigger runs
\* Runs without a termination signal and without a database fault, in which
\* the waiting time of the buffered records is recorded: a subset of the
\* program's behaviours.
InitTimeTrigger ==
  /\ InitPipeline
  /\ waited = 0
  /\ netVariant = "http"
  /\ InitFetchIdle
  /\ InitStarted(NumItems)

NextTimeTrigger ==
  \/ \E i \in Items, o \in {"valid", "nohtml"} : FetchDone(i, o)
  \/ Tick
  \/ ShutdownWake
  \/ \E k \in DOMAIN commits, ok \in {TRUE} : DbConnect(k, ok)
  \/ \E k \in DOMAIN commits, ok \in {TRUE} : DbBegin(k, ok)
  \/ \E k \in DOMAIN commits, ok \in {TRUE} : DbInsert(k, ok)
  \/ \E k \in DOMAIN commits, ok \in {TRUE} : DbCommit(k, ok)
  \/ MainAfterIdle
  \/ MainAfterWriter
  \/ MainPoolEnded

SpecTimeTrigger == InitTimeTrigger /\ [][NextTimeTrigger]_vars

\* ------------------------------------------------ the end-to-end scenario
\* Work items 1, 2, 3 stand for the identifiers 111, 222, 333, none of them
\* persisted: 111 is answered 200 with a valid page, 222 is answered 404,
\* 333 is answered 200 with a page parseHtmlToSnapshot returns null for.
EndToEndItems == 1..3

EndToEndResponse(i) == IF i = 2 THEN StatusResponse(404) ELSE StatusResponse(200)

EndToEndParses(i) == i = 1

\* What processUsdot(i) meets: fetchHtml's result on the first response,
\* then parseHtmlToSnapshot's.
EndToEndOutcome(i) ==
  IF fetchHtmlStep(netVariant, EndToEndResponse(i), 0).result # "html"
    THEN "nohtml"
    ELSE IF EndToEndParses(i) THEN "valid" ELSE "invalid"

InitEndToEnd ==
  /\ CONCURRENCY = ConcurrencyCfg
  /\ BATCH_SIZE = BatchSizeCfg
  /\ dbVariant \in {"perRow", "multiRow"}
  /\ running = jobQueueFeed(3).running
  /\ pending = jobQueueFeed(3).pending
  /\ writeBatch = <<>>
  /\ appended = EmptyBag
  /\ stats = [scraped |-> 0, failed |-> 0, saved |-> 0, errors |-> 0]
  /\ InitWriter
  /\ waited = -1
  /\ netVariant \in {"http", "socks"}
  /\ InitFetchIdle
  /\ InitStarted(3)

\* A full drain: no termination signal, no database fault.
NextEndToEnd ==
  \/ \E i \in EndToEndItems : FetchDone(i, EndToEndOutcome(i))
  \/ Tick
  \/ ShutdownWake
  \/ \E k \in DOMAIN commits, ok \in {TRUE} : DbConnect(k, ok)
  \/ \E k \in DOMAIN commits, ok \in {TRUE} : DbBegin(k, ok)
  \/ \E k \in DOMAIN commits, ok \in {TRUE} : DbInsert(k, ok)
  \/ \E k \in DOMAIN commits, ok \in {TRUE} : DbCommit(k, ok)
  \/ MainAfterIdle
  \/ MainAfterWriter
  \/ MainPoolEnded

SpecEndToEnd == InitEndToEnd /\ [][NextEndToEnd]_vars

\* ------------------------------------------- the start of a run
\* The table an earlier run left behind after committing the records of the
\* work items in S (each under the identifier its page carries).
RECURSIVE StoreAfter(_)
StoreAfter(S) ==
  IF S = {} THEN [u \in ScenarioItems |-> 0]
  ELSE LET i == CHOOSE x \in S : \A y \in S : x >= y
       IN Upsert(StoreAfter(S \ {i}), Snapshot(i))

\* The loop of lines 295-297 over the first n entries of a work list.
RECURSIVE jobQueueFeedList(_, _)
jobQueueFeedList(list, n) ==
  IF n = 0 THEN [running |-> {}, pending |-> <<>>]
  ELSE jobQueueAdd(jobQueueFeedList(list, n - 1), ItemOf(list[n]))

\* Every module is imported (the config module has computed its constants
\* from process.env); the entry point of orchestrator.ts has not run yet.
InitBoot ==
  /\ config = loadConfig(env)
  /\ CONCURRENCY = config.CONCURRENCY
  /\ BATCH_SIZE = BatchSizeCfg
  /\ dbVariant = "multiRow"
  /\ running = {}
  /\ pending = <<>>
  /\ writeBatch = <<>>
  /\ appended = EmptyBag
  /\ stats = [scraped |-> 0, failed |-> 0, saved |-> 0, errors |-> 0]
  /\ flushing = FALSE
  /\ stopped = FALSE
  /\ timerOn = FALSE
  /\ sinceFlush = 0
  /\ commits = <<>>
  /\ shutdownPc = "none"
  /\ resolved = FALSE
  /\ mainPc = "entry"
  /\ poolState = "open"
  /\ store = StoreAfter(prevCommitted)
  /\ signals = 0
  /\ drained = EmptyBag
  /\ committed = EmptyBag
  /\ dropped = EmptyBag
  /\ shutdownFlushes = 0
  /\ sigSnap = <<>>
  /\ waited = -1
  /\ netVariant = "http"
  /\ InitFetchIdle
  /\ todoList = <<>>
  /\ queryFailed = FALSE
  /\ fetchCalls = [i \in ScenarioItems |-> 0]
  /\ poolEndCalls = 0

\* Lines 327-338: the flag test, then main() up to the first await of
\* loadTodoList.
EntryPoint ==
  /\ mainPc = "entry"
  /\ env' = IF "--test" \in argv \/ "-t" \in argv
              THEN [env EXCEPT !.TEST_MODE = "true"]
              ELSE env
  /\ mainPc' = "loading"
  /\ UNCHANGED <<cfgVars, fetchVars, poolVars, writerVars, poolState, store,
                 signals, appended, sigSnap, waited, argv, config, csvLines,
                 todoList, queryFailed, prevCommitted, fetchCalls,
                 poolEndCalls>>

\* The persisted-identifier query settles (ok: with its rows): the rest of
\* loadTodoList, then main: with no work, pool.end() (line 277); otherwise
\* the queue, the writer and the feeding loop up to jobQueue.onIdle()
\* (lines 282-300).  Had loadTodoList rejected, main's finally block would
\* call pool.end() and the process would exit with status 1.
MainLoaded(ok) ==
  /\ mainPc = "loading"
  /\ queryFailed' = ~ok
  /\ IF loadTodoListSettles(ok) = "rejected"
       THEN /\ mainPc' = "crashed"
            /\ poolState' = "ending"
            /\ poolEndCalls' = poolEndCalls + 1
            /\ UNCHANGED <<todoList, poolVars, timerOn>>
       ELSE LET todo == loadTodoList(csvLines, ok, store, config)
                q == jobQueueFeedList(todo, Len(todo))
            IN /\ todoList' = todo
               /\ running' = q.running
               /\ pending' = q.pending
               /\ mainPc' = IF todo = <<>> THEN "noWork" ELSE "scraping"
               /\ poolState' = IF todo = <<>> THEN "ending" ELSE poolState
               /\ poolEndCalls' = IF todo = <<>> THEN poolEndCalls + 1
                                  ELSE poolEndCalls
               /\ timerOn' = (todo # <<>>)
  /\ CallsNext({})
  /\ UNCHANGED <<cfgVars, fetchVars, writeBatch, flushing, stopped, sinceFlush,
                 commits, shutdownPc, resolved, stats, drained, committed,
                 dropped, shutdownFlushes, store, signals, appended, sigSnap,
                 waited, env, argv, config, csvLines, prevCommitted>>

\* pg Pool.end(): the pool starts ending on the first call; a call on a
\* pool that is ending or ended is rejected ("Called end on pool more than
\* once").
poolEnd(calls) == IF calls = 0 THEN "fulfilled" ELSE "rejected"

\* The empty work set: the pool.end() of line 277 has resolved, main
\* returns, its finally block calls pool.end() again (line 322); when that
\* call is rejected main rejects and the entry point's catch ends the
\* process with status 1 (lines 334-337).
MainNoWork ==
  /\ mainPc = "noWork"
  /\ poolState' = "closed"
  /\ poolEndCalls' = poolEndCalls + 1
  /\ mainPc' = IF poolEnd(poolEndCalls) = "rejected" THEN "exit1" ELSE "done"
  /\ UNCHANGED <<cfgVars, fetchVars, startVars, fetchCalls, waited, poolVars,
                 writerVars, store, signals, appended, sigSnap>>

\* The runs of loadTodoList: any input file of up to MaxLines lines, any
\* set of work items committed by an earlier run, test mode on or off.
CsvLineTexts == {"DOT_NUMBER", "1", "2", " 2 ", "0001", "abc"}

CsvFiles == UNION {[1..n -> CsvLineTexts] : n \in 0..MaxLines}

ResumeItems == 1..3

LoadEnvs ==
  [TEST_MODE : {"", "True"}, TEST_LIMIT : {"", "0", "1", "2"},
   CONCURRENCY : {""}, PROXY_MAX_CONCURRENCY : {""}, PROXY_URL : {"host"},
   PROXY_USER_BASE : {"user"}, PROXY_PASS : {"pass"}]

InitLoad ==
  /\ env \in LoadEnvs
  /\ argv \in {{}, {"--test"}}
  /\ csvLines \in CsvFiles
  /\ prevCommitted \in SUBSET ResumeItems
  /\ InitBoot

NextLoad ==
  \/ EntryPoint
  \/ \E ok \in BOOLEAN : MainLoaded(ok)
  \/ MainNoWork

SpecLoad == InitLoad /\ [][NextLoad]_vars

\* The runs from the entry point to the idle queue: an input file with a
\* header and the NumItems work items, any mix of the settings the config
\* module reads, any outcome of every fetch; the writer is left out.
RunEnvs ==
  [TEST_MODE : {"", "True"}, TEST_LIMIT : {"", "2"},
   CONCURRENCY : {"", "1", "3"}, PROXY_MAX_CONCURRENCY : {"", "2"},
   PROXY_URL : {"host"}, PROXY_USER_BASE : {"user"}, PROXY_PASS : {"", "pass"}]

InitRun ==
  /\ env \in RunEnvs
  /\ argv \in {{}, {"--test"}, {"-t"}}
  /\ csvLines = <<"DOT_NUMBER">> \o [k \in 1..NumItems |-> ItemText[k]]
  /\ prevCommitted \in {{}, {2}}
  /\ InitBoot

NextRun ==
  \/ EntryPoint
  \/ \E ok \in BOOLEAN : MainLoaded(ok)
  \/ \E i \in ScenarioItems, o \in Outcomes : FetchDone(i, o)

SpecRun == InitRun /\ [][NextRun]_vars

\* ================================================================ claims
CommitEnded == committed' # committed \/ dropped' # dropped

CommitsContinue ==
  \A k \in DOMAIN commits :
     k \in DOMAIN commits' /\ commits'[k].batch = commits[k].batch

IsPrefix(a, b) == Len(a) <= Len(b) /\ SubSeq(b, 1, Len(a)) = a

InFlight == UNION {Range(commits[k].batch) : k \in DOMAIN commits}

\* C1: for every interleaving of appends and drains no record is lost or
\* duplicated: every appended record is either still in writeBatch or was
\* returned by exactly one drain, and a drain leaves writeBatch empty.
C1_NoLossNoDuplication ==
  /\ [](/\ appended = drained (+) SeqToBag(writeBatch)
        /\ \A r \in BagToSet(drained) : CopiesIn(r, drained) = 1)
  /\ [][drained' # drained => writeBatch' = <<>>]_vars

\* C1 witness: a record was appended while an earlier drain is being
\* committed.
C1_Witness ==
  /\ BagToSet(drained) # {}
  /\ commits # <<>>
  /\ writeBatch # <<>>

\* C2: at most one batch commit is in flight at any instant, and a tick or
\* shutdown flush that fires while `flushing` is set drains nothing.
C2_SingleCommitInFlight ==
  /\ [](Len(commits) <= 1 /\ (commits # <<>> => flushing))
  /\ [][(flushing /\ CommitsContinue)
          => (drained' = drained /\ IsPrefix(writeBatch, writeBatch'))]_vars

\* C2 witness: handleShutdown ran while a tick's commit was in flight and
\* records were waiting; it drained nothing and went to sleep.
C2_Witness ==
  /\ shutdownPc = "sleep"
  /\ flushing
  /\ Len(writeBatch) > 0
  /\ Len(commits) = 1

\* C3: in the shutdown scenario (signal while 5 items are mid-fetch and 3
\* records are buffered below BATCH_SIZE), once the process has exited
\* writeBatch is empty and the 3 buffered records went through a resolved
\* commit (a batch lost to a database fault is not held against the claim).
C3_ShutdownScenario ==
  (Exited /\ sigSnap = <<5, 3>>)
    => /\ writeBatch = <<>>
       /\ \A i \in {1, 2, 4} : BagIn(Snapshot(i), committed (+) dropped)

\* C4: the promise returned by dbWriterWorker resolves only with writeBatch
\* empty and no commit in flight.
C4_StoppedAfterFinalCommit ==
  [][(~resolved /\ resolved')
       => (writeBatch' = <<>> /\ ~flushing' /\ commits' = <<>>)]_vars

\* C5: after a termination signal has been received no new processUsdot
\* pipeline is started.
C5_NoNewPipelineAfterSignal ==
  [][signals > 0 => running' \subseteq running]_vars

\* C6: a shutdown request flushes whatever is buffered, whatever the
\* thresholds, and the first handleShutdown invocation returns only with
\* writeBatch empty and flushing = false.
C6_ShutdownDrainsCompletely ==
  /\ [][(shutdownPc # "returned" /\ shutdownPc' = "returned")
          => (Len(writeBatch') = 0 /\ ~flushing')]_vars
  /\ [][(~stopped /\ stopped' /\ ~flushing /\ Len(writeBatch) > 0)
          => (drained' = drained (+) SeqToBag(writeBatch)
              /\ shutdownPc' = "flush")]_vars

\* C6 witness: handleShutdown returned after flushing twice (records were
\* appended while its first commit was in flight).
C6_Witness ==
  /\ shutdownPc = "returned"
  /\ shutdownFlushes >= 2

\* C7: when the commit of a drained batch fails, none of its records is put
\* back into writeBatch or committed later, stats.saved is unchanged and
\* stats.errors counts the loss.
C7_FailedBatchIsLost ==
  /\ [](\A r \in BagToSet(dropped) :
           /\ ~BagIn(r, committed)
           /\ r \notin Range(writeBatch)
           /\ r \notin InFlight)
  /\ [][dropped' # dropped
          => (stats'.saved = stats.saved /\ stats'.errors = stats.errors + 1)]_vars

\* C7 witness: a batch was dropped and a later batch was committed.
C7_Witness ==
  /\ BagToSet(dropped) # {}
  /\ BagToSet(committed) # {}
  /\ stats.errors >= 1

\* C8: when a batch commit succeeds, stats.saved grows by exactly the number
\* of records of the drained batch and the last-commit time is updated.
C8_SavedCountsBatch ==
  [][committed' # committed
       => (/\ stats'.saved = stats.saved
                + (BagCardinality(committed') - BagCardinality(committed))
           /\ sinceFlush' = 0)]_vars

\* C8 witness: a batch of two records has been committed.
C8_Witness ==
  /\ BagCardinality(committed) >= 2
  /\ stats.saved >= 2
  /\ commits = <<>>

\* C9: a batch commit is atomic: while it is in flight the store is as it
\* was before the batch; when it ends the store holds every row of the batch
\* (success) or is exactly as before (failure of BEGIN, an insert or COMMIT).
C9_BatchCommitAtomic ==
  /\ [](\A k \in DOMAIN commits : store = commits[k].pre)
  /\ [][\A k \in DOMAIN commits :
          /\ committed' # committed
               => store' = ApplyRows(commits[k].pre, commits[k].batch)
          /\ dropped' # dropped => store' = commits[k].pre]_vars

\* C9 witness: an insert failed after an earlier row of the same batch had
\* been inserted; the transaction is about to be rolled back.
C9_Witness ==
  \E k \in DOMAIN commits :
     /\ commits[k].pc = "rollback"
     /\ commits[k].idx >= 1
     /\ commits[k].txRows # <<>>

\* The values the store must hold for identifier u after `batch`.
LatestSrc(batch, u) ==
  LET js == {j \in DOMAIN batch : batch[j].usdot_number = u}
  IN batch[CHOOSE j \in js : \A j2 \in js : j2 <= j].src

\* C10: a commit that meets no database fault never fails, and leaves for
\* every identifier of its batch the one row with the latest values, also
\* when the batch holds the identifier twice.
C10_UpsertIdempotent ==
  [][\A k \in DOMAIN commits :
       (CommitEnded /\ ~commits[k].fault /\ commits[k].pc # "connect")
         => /\ committed' # committed
            /\ \A j \in DOMAIN commits[k].batch :
                 store'[commits[k].batch[j].usdot_number]
                   = LatestSrc(commits[k].batch, commits[k].batch[j].usdot_number)]_vars

\* C11 as stated: whenever a writer tick fires with at least BATCH_SIZE
\* records in writeBatch, that tick drains the buffer.
C11_SizeTriggerEveryTick ==
  [][(Tick /\ Len(writeBatch) >= BATCH_SIZE)
       => (drained' = drained (+) SeqToBag(writeBatch) /\ writeBatch' = <<>>)]_vars

\* C11: a writer tick that fires with at least BATCH_SIZE records in
\* writeBatch and no commit in flight drains the whole buffer and starts its
\* commit, whatever the time since the last flush.
C11_SizeTrigger ==
  [][(Tick /\ Len(writeBatch) >= BATCH_SIZE /\ ~flushing)
       => (/\ drained' = drained (+) SeqToBag(writeBatch)
           /\ writeBatch' = <<>>
           /\ flushing'
           /\ Len(commits') = 1
           /\ commits'[1].batch = writeBatch
           /\ commits'[1].caller = "tick")]_vars

\* C11 witness: a tick drained a full buffer before the time threshold had
\* elapsed.
C11_Witness ==
  /\ Len(commits) = 1
  /\ commits[1].caller = "tick"
  /\ Len(commits[1].batch) >= BATCH_SIZE
  /\ commits[1].pc = "connect"
  /\ sinceFlush < FLUSH_INTERVAL_MS

\* C12: a buffer holding at least 1 and fewer than BATCH_SIZE records, with
\* no append since, is drained for its commit no later than WaitLimit ticks
\* (the time threshold plus one tick interval) after its last append.
C12_TimeTrigger ==
  (Len(writeBatch) >= 1 /\ Len(writeBatch) < BATCH_SIZE) => waited <= WaitLimit

Attempted == stats.scraped + stats.failed

\* C13: at every instant at most CONCURRENCY processUsdot pipelines are
\* running, however many work items wait in the queue.
C13_ConcurrencyCap ==
  Cardinality(running) <= CONCURRENCY

\* C13 witness: the queue has started a waiting job after a pipeline
\* finished, and CONCURRENCY pipelines are running.
C13_Witness ==
  /\ Cardinality(running) = CONCURRENCY
  /\ Attempted >= 1
  /\ Len(pending) < NumItems - CONCURRENCY

\* C14: main gets past jobQueue.onIdle() only when no item is running or
\* queued; every finished item adds one to exactly one of stats.scraped and
\* stats.failed; so scraped + failed is then the number of work items.
C14_IdleAfterAllCounted ==
  /\ [](/\ Attempted + Cardinality(running) + Len(pending) = NumItems
        /\ mainPc # "scraping"
             => (running = {} /\ pending = <<>> /\ Attempted = NumItems))
  /\ [][\/ /\ running \subseteq running'
           /\ stats'.scraped = stats.scraped
           /\ stats'.failed = stats.failed
        \/ /\ Cardinality(running \ running') = 1
           /\ \/ /\ stats'.scraped = stats.scraped + 1
                 /\ stats'.failed = stats.failed
              \/ /\ stats'.scraped = stats.scraped
                 /\ stats'.failed = stats.failed + 1]_vars

\* C14 witness: main is past onIdle with both counters used.
C14_Witness ==
  /\ mainPc = "awaitWriter"
  /\ stats.scraped >= 1
  /\ stats.failed >= 1

\* C15: processUsdot never rejects (no unhandled rejection ends the
\* process), and the step in which an item fails leaves every other running
\* item running and starts the next queued item.
C15_Bulkhead ==
  /\ [](mainPc # "crashed")
  /\ [][stats'.failed # stats.failed
          => (/\ Cardinality(running \ running') = 1
              /\ pending # <<>>
                   => (Head(pending) \in running' /\ pending' = Tail(pending))
              /\ writeBatch' = writeBatch)]_vars

\* C15 witness: an exception was caught for one item (stats.errors counted
\* with no commit ever started) and the run went on to the end of scraping
\* with another item scraped.
C15_Witness ==
  /\ stats.errors >= 1
  /\ drained = EmptyBag
  /\ stats.scraped >= 1
  /\ running = {}
  /\ pending = <<>>

\* C16: in the end-to-end scenario, once the process has exited after a
\* full drain, saved = 1, failed = 2, scraped + failed = 3 and the store
\* holds exactly one row, the one of identifier 111 (item 1).
C16_EndToEnd ==
  Exited => (/\ stats.saved = 1
             /\ stats.failed = 2
             /\ Attempted = 3
             /\ {u \in DOMAIN store : store[u] # 0} = {UsdotOf(1)}
             /\ store[UsdotOf(1)] = 1)

\* C16 witness: the scenario has run to the exit, the record of item 1
\* having been committed by the shutdown flush.
C16_Witness ==
  /\ Exited
  /\ BagIn(Snapshot(1), committed)
  /\ shutdownFlushes = 1

StatusAt(k) == fetchLog[k].response.status

\* C17: an attempt answered 404 is the last one and the call returns null
\* (one attempt when the first answer is 404); a call answered 403 at
\* every attempt returns null after exactly MAX_RETRIES attempts.
C17_RetryClassification ==
  /\ \A k \in DOMAIN fetchLog :
        StatusAt(k) = 404
          => (k = Len(fetchLog) /\ fetchPc = "returned" /\ fetchResult = "null")
  /\ (fetchLog # <<>> /\ StatusAt(1) = 404) => Len(fetchLog) = 1
  /\ (\A k \in DOMAIN fetchLog : StatusAt(k) = 403)
        => (/\ Len(fetchLog) <= MAX_RETRIES
            /\ (fetchPc = "returned" /\ fetchLog # <<>>)
                 => (Len(fetchLog) = MAX_RETRIES /\ fetchResult = "null")
            /\ (fetchPc \in {"request", "delay"}) => Len(fetchLog) < MAX_RETRIES)

\* C17 witness: the SOCKS variant has returned after MAX_RETRIES attempts
\* that were all answered 403.
C17_Witness ==
  /\ netVariant = "socks"
  /\ fetchPc = "returned"
  /\ Len(fetchLog) = MAX_RETRIES
  /\ \A k \in DOMAIN fetchLog : StatusAt(k) = 403

\* C18: an attempt answered with a status >= 500 is retried while attempts
\* remain and ends the call with null otherwise, as for 403 / 429; an
\* attempt answered with any other unexpected status ends the call.
C18_ServerErrorAndOtherStatus ==
  \A k \in DOMAIN fetchLog :
     /\ StatusAt(k) >= 500
          => fetchLog[k].do = (IF k < MAX_RETRIES THEN "retry" ELSE "return")
     /\ (StatusAt(k) \notin {0, 200, 404, 403, 429} /\ StatusAt(k) < 500)
          => fetchLog[k].do = "return"

\* C19: no two attempts of one fetchHtml call use the same session token.
C19_FreshIdentityPerAttempt ==
  \A a, b \in DOMAIN fetchLog :
     a # b => fetchLog[a].session # fetchLog[b].session

\* C20: the delay before a retry is about 1 second after 403 / 429 / >= 500,
\* about 200 ms after a connection reset, a protocol error or a connection
\* closed mid-request, and 1 to 2 seconds after any other network failure.
C20_RetryDelayByClass ==
  \A k \in DOMAIN fetchLog :
     LET r == fetchLog[k].response
         d == fetchLog[k].delay
     IN fetchLog[k].do = "retry"
          => /\ (r.status \in {403, 429} \/ r.status >= 500) => d = 1000
             /\ (r.status = 0 /\ (r.code \in {"ECONNRESET", "EPROTO"}
                                   \/ r.message = "Socket closed"))
                  => d = 200
             /\ (r.status = 0 /\ r.code \in {"ECONNABORTED", "ETIMEDOUT",
                                              "ENOTFOUND", "ECONNREFUSED"})
                  => (d >= 1000 /\ d <= 2000)

InputSet ==
  {u \in {trim(csvLines[k]) : k \in DOMAIN csvLines} :
     u # "" /\ ~isNaNNumber(u)}

PersistedSet == {KeyText(u) : u \in {k \in DOMAIN store : store[k] # 0}}

Loaded == mainPc \in {"scraping", "noWork", "done", "exit1"}

CapApplies(S) ==
  config.TEST_MODE /\ config.TEST_LIMIT # 0 /\ Cardinality(S) > config.TEST_LIMIT

\* C22: the work set loadTodoList returns holds no identifier twice and,
\* when the persisted-identifier query succeeded and the test-mode cap does
\* not cut it, is exactly A minus P, whatever the order and the repetitions
\* of the lines of the input file.
C22_TodoIsInputMinusPersisted ==
  Loaded =>
    /\ Cardinality(Range(todoList)) = Len(todoList)
    /\ ~queryFailed /\ ~CapApplies(InputSet \ PersistedSet) =>
         Range(todoList) = InputSet \ PersistedSet

\* An input file that repeats an identifier, with a part of A persisted
\* and a part not.
C22_Witness ==
  /\ Loaded
  /\ ~queryFailed
  /\ ~CapApplies(InputSet \ PersistedSet)
  /\ InputSet \cap PersistedSet # {}
  /\ todoList # <<>>
  /\ \E j, k \in DOMAIN csvLines : j # k /\ trim(csvLines[j]) = trim(csvLines[k])
                                    /\ trim(csvLines[j]) \in InputSet

\* ---------------------------------------------------------------- C23
\* C23: when the persisted-identifier query is rejected, loadTodoList still
\* returns (main goes on past it), and the work set is the whole input set A
\* (cut to TEST_LIMIT entries of A when the test-mode cap applies), as if
\* nothing were persisted.
C23_QueryFailureFallsBackToInput ==
  queryFailed =>
    /\ Loaded
    /\ IF CapApplies(InputSet)
         THEN Len(todoList) = config.TEST_LIMIT /\ Range(todoList) \subseteq InputSet
         ELSE Range(todoList) = InputSet

\* The query failed while a part of the input was persisted: the persisted
\* identifiers are in the work set all the same.
C23_Witness ==
  /\ queryFailed
  /\ Loaded
  /\ InputSet \cap PersistedSet # {}
  /\ InputSet \ PersistedSet # {}
  /\ Range(todoList) = InputSet

\* ---------------------------------------------------------------- C24
\* The set loadTodoList computed before the cap: A minus P, or A when the
\* query was rejected.
ComputedSet == IF queryFailed THEN InputSet ELSE InputSet \ PersistedSet

C25_ResumeSkipsCommitted ==
  Loaded /\ ~queryFailed =>
    \A i \in prevCommitted :
      ItemText[i] \in InputSet => ItemText[i] \notin Range(todoList)

C27_CountersMonotone ==
  /\ stats = [scraped |-> 0, failed |-> 0, saved |-> 0, errors |-> 0]
  /\ [][/\ stats'.scraped >= stats.scraped
        /\ stats'.failed >= stats.failed
        /\ stats'.saved >= stats.saved
        /\ stats'.errors >= stats.errors]_vars

\* A finished run in which every counter has moved.
C27_Witness ==
  /\ mainPc = "done"
  /\ stats.scraped > 0
  /\ stats.failed > 0
  /\ stats.saved > 0
  /\ stats.errors > 0

\* ---------------------------------------------------------------- C28
\* C28: no work item is fetched twice in a run, and when the queue is idle
\* every item of the work list has been fetched exactly once; an item that
\* finishes without a record being pushed is counted as failed and is put
\* back neither among the running nor among the waiting jobs.
C28_OneFetchPerItem ==
  /\ [](/\ \A i \in DOMAIN fetchCalls : fetchCalls[i] <= 1
        /\ mainPc = "scraping" /\ running = {} /\ pending = <<>> =>
             \A s \in Range(todoList) : fetchCalls[ItemOf(s)] = 1)
  /\ [][\A i \in running :
          i \notin running' /\ appended' = appended =>
            /\ stats'.failed = stats.failed + 1
            /\ i \notin Range(pending')]_vars

\* An idle queue after a run over the whole input in which a page yielded
\* no record and another did.
C28_Witness ==
  /\ mainPc = "scraping"
  /\ running = {}
  /\ pending = <<>>
  /\ Len(todoList) = NumItems
  /\ stats.failed > 0
  /\ stats.errors = 0
  /\ stats.scraped > 0
  /\ \A s \in Range(todoList) : fetchCalls[ItemOf(s)] = 1

\* ---------------------------------------------------------------- C29
\* C29: every record in writeBatch, every record of a batch handed to a
\* commit and every record ever pushed has a non-empty usdot_number: a page
\* without identifier is counted as failed and pushes nothing.
C29_RecordsHaveIdentifier ==
  /\ \A k \in DOMAIN writeBatch : writeBatch[k].usdot_number # 0
  /\ \A c \in DOMAIN commits :
       \A k \in DOMAIN commits[c].batch : commits[c].batch[k].usdot_number # 0
  /\ \A rec \in BagToSet(appended) : rec.usdot_number # 0
  /\ BagCardinality(appended) = stats.scraped

\* A batch is being committed, a record waits in the buffer and a page
\* without a record has been counted as failed.
C29_Witness ==
  /\ commits # <<>>
  /\ commits[1].batch # <<>>
  /\ writeBatch # <<>>
  /\ stats.failed > 0
  /\ stats.errors = 0

\* ---------------------------------------------------------------- C30
\* The cap the --test / -t flag should bring: TEST_LIMIT of the
\* environment, 100 when it is not set.
FlagTestLimit == parseInt(envOr(env.TEST_LIMIT, "100"))

\* C30: a run started with --test or -t sends its requests without a proxy
\* and its work list holds at most TEST_LIMIT entries.
C30_TestFlagEnablesTestMode ==
  mainPc = "scraping" /\ ("--test" \in argv \/ "-t" \in argv) =>
    /\ ~getProxyAgent
    /\ Len(todoList) <= FlagTestLimit

\* ---------------------------------------------------------------- C31
\* C31: no batch handed to a commit holds more than BATCH_SIZE records.
C31_BatchAtMostBatchSize ==
  \A c \in DOMAIN commits : Len(commits[c].batch) <= BATCH_SIZE

\* ---------------------------------------------------------------- C32
\* C32: a run whose persisted-identifier query succeeded, its work set
\* empty or not, calls pool.end() once and ends with main completed (exit
\* status 0), never through the entry point's catch (exit status 1).
C32_PoolClosedOnceExitZero ==
  ~queryFailed =>
    /\ poolEndCalls <= 1
    /\ mainPc # "exit1"
    /\ mainPc = "done" => poolEndCalls = 1 /\ poolState = "closed"

\* ---------------------------------------------------------------- C33
\* C33: a writer tick that finds writeBatch empty, or finds fewer than
\* BATCH_SIZE records with less than FLUSH_INTERVAL_MS elapsed since the
\* last commit, starts no commit and leaves writeBatch, the counters and the
\* commit-in-progress flag as they were; the last-commit time stays, so the
\* elapsed time only advances by the tick period.
C33_IdleTickIsNoOp ==
  [][(/\ Tick
      /\ \/ writeBatch = <<>>
         \/ /\ Len(writeBatch) < BATCH_SIZE
            /\ sinceFlush + TICK_MS < FLUSH_INTERVAL_MS)
       => (/\ commits' = commits
           /\ writeBatch' = writeBatch
           /\ stats' = stats
           /\ flushing' = flushing
           /\ drained' = drained
           /\ sinceFlush' = Min(sinceFlush + TICK_MS, FLUSH_INTERVAL_MS))]_vars

\* C33 witness: two ticks have fired, each on an empty buffer or on a short
\* one below the time threshold; no commit was started and a record waits.
C33_Witness ==
  /\ timerOn
  /\ sinceFlush = 2 * TICK_MS
  /\ Len(writeBatch) = 1
  /\ Len(writeBatch) < BATCH_SIZE
  /\ drained = EmptyBag
  /\ stats.saved = 0 /\ stats.errors = 0

\* ---------------------------------------------------------------- C34
\* C34: a failed batch commit clears the commit-in-progress flag (it is set
\* again in the same step only by the shutdown loop that awaited the commit
\* and now starts the commit of the records appended meanwhile); after a
\* failure a tick whose trigger holds drains the buffer into a new commit as
\* before, and a later commit that succeeds saves exactly its own batch.
C34_FailureDoesNotPropagate ==
  /\ [](BagToSet(dropped) # {} /\ commits = <<>> => ~flushing)
  /\ [][dropped' # dropped
          => (flushing' => /\ Len(commits') = 1
                           /\ commits'[1].caller = "shutdown"
                           /\ commits'[1].pc = "connect"
                           /\ commits'[1].batch = writeBatch
                           /\ writeBatch' = <<>>)]_vars
  /\ [][(/\ Tick
         /\ BagToSet(dropped) # {}
         /\ ~flushing
         /\ \/ Len(writeBatch) >= BATCH_SIZE
            \/ writeBatch # <<>> /\ sinceFlush + TICK_MS >= FLUSH_INTERVAL_MS)
          => (/\ Len(commits') = 1
              /\ commits'[1].batch = writeBatch
              /\ commits'[1].caller = "tick"
              /\ writeBatch' = <<>>)]_vars
  /\ [][(BagToSet(dropped) # {} /\ committed' # committed)
          => (/\ committed' = committed (+) SeqToBag(commits[1].batch)
              /\ stats'.saved = stats.saved + Len(commits[1].batch)
              /\ stats'.errors = stats.errors
              /\ dropped' = dropped)]_vars

\* C34 witness: after a batch was dropped by a failed commit, a tick has
\* started the commit of records appended later, and its rows are inserted.
C34_Witness ==
  /\ BagToSet(dropped) # {}
  /\ committed = EmptyBag
  /\ Len(commits) = 1
  /\ commits[1].caller = "tick"
  /\ commits[1].pc = "commit"
  /\ ~commits[1].fault

\* ---------------------------------------------------------------- C35
\* C35: whatever the attempts of a fetchHtml call meet, the call makes at
\* most MAX_RETRIES attempts: the attempts made follow the loop variable,
\* which stays below MAX_RETRIES while the call runs, and once the
\* MAX_RETRIES-th attempt has settled the call has ended.
C35_AtMostMaxRetriesAttempts ==
  /\ Len(fetchLog) <= MAX_RETRIES
  /\ fetchPc = "request" => (attempt = Len(fetchLog) /\ attempt < MAX_RETRIES)
  /\ fetchPc = "delay" => (attempt + 1 = Len(fetchLog) /\ attempt + 1 < MAX_RETRIES)
  /\ Len(fetchLog) = MAX_RETRIES => fetchPc \in {"returned", "rejected"}

\* C35 witness: a call has ended after MAX_RETRIES attempts that met three
\* different failure classes: a server error, a network failure and a rate
\* limit.
C35_Witness ==
  /\ fetchPc = "returned"
  /\ Len(fetchLog) = MAX_RETRIES
  /\ StatusAt(1) = 500
  /\ fetchLog[2].response.code = "ECONNRESET"
  /\ StatusAt(MAX_RETRIES) = 429

\* ---------------------------------------------------------------- C36
\* The writer's shutdown state: 0 Running (no shutdown requested), 1
\* Draining (handleShutdown is in its loop), 2 Stopped (it has returned).
ShutdownState ==
  IF ~stopped THEN 0 ELSE IF shutdownPc = "returned" THEN 2 ELSE 1

\* C36: the shutdown state never moves back; once a shutdown has been
\* requested `stopped` stays set, the interval timer is off, and a commit
\* started by a tick is never started afterwards (one in flight is one that
\* was in flight already).
C36_ShutdownOnlyForward ==
  /\ [](stopped => ~timerOn)
  /\ [][/\ ShutdownState' >= ShutdownState
        /\ stopped => stopped'
        /\ (stopped /\ commits' # <<>> /\ commits'[Len(commits')].caller = "tick")
             => (/\ Len(commits) = Len(commits')
                 /\ commits[Len(commits)].caller = "tick"
                 /\ commits[Len(commits)].batch = commits'[Len(commits')].batch)]_vars

\* C36 witness: the writer went from Running through Draining, where it
\* started a commit of its own, to Stopped, after a termination signal.
C36_Witness ==
  /\ ShutdownState = 2
  /\ signals >= 1
  /\ shutdownFlushes >= 1
  /\ commits = <<>>
  /\ ~timerOn

\* ---------------------------------------------------------------- C37
\* C37: when main closes the pool, and from then on to the end of the
\* process, writeBatch is empty, no commit is in flight, and every record
\* that was appended to writeBatch has been committed or dropped by a failed
\* commit.
C37_AppendedSettledBeforePoolEnd ==
  mainPc \in {"poolEnd", "done"}
    => /\ writeBatch = <<>>
       /\ commits = <<>>
       /\ \A r \in BagToSet(appended) : BagIn(r, committed (+) dropped)

\* ---------------------------------------------------------------- C38
\* The records of the batches being committed.
InFlightCount ==
  LET RECURSIVE Sum(_)
      Sum(k) == IF k = 0 THEN 0 ELSE Len(commits[k].batch) + Sum(k - 1)
  IN Sum(Len(commits))

\* C38: record conservation: stats.scraped equals stats.saved plus the
\* records in writeBatch plus those of the batch being committed plus those
\* of the batches dropped by failed commits; stats.saved never exceeds
\* stats.scraped.
C38_RecordConservation ==
  /\ stats.scraped = stats.saved + Len(writeBatch) + InFlightCount
                       + BagCardinality(dropped)
  /\ stats.saved <= stats.scraped

\* C38 witness: of three scraped records one is saved, one was dropped by a
\* failed commit and one is buffered or being committed.
C38_Witness ==
  /\ stats.scraped = 3
  /\ stats.saved = 1
  /\ BagCardinality(dropped) = 1
  /\ Len(writeBatch) + InFlightCount = 1

\* ---------------------------------------------------------------- C39
\* C39: stats.errors counts the failed batch commits: it starts at 0, every
\* failed commit (a batch is dropped) adds one to it, and no other step
\* changes it.
C39_ErrorsCountFailedCommits ==
  /\ stats.errors = 0
  /\ [][/\ dropped' # dropped => stats'.errors = stats.errors + 1
        /\ stats'.errors # stats.errors => dropped' # dropped]_vars

\* ------------------------- schema.sql lines 170-208: the earlier writer
\* The earlier dbWriterWorker keeps no commit-in-progress flag and hands
\* writeBatch itself, not a copy, to bulkInsertBatch: while the array is
\* still the one the variable writeBatch names (live), the commit reads what
\* the pipelines push; once `writeBatch = []` has run, a commit still in
\* flight keeps the old array (batch), which nothing can reach any more.
bulkInsertBatchEarlier(reason) ==
  [batch |-> <<>>, live |-> TRUE, caller |-> reason, pc |-> "connect",
   idx |-> 0, txRows |-> <<>>]

\* The array that commit k iterates.
recordsOf(w, k) ==
  IF w.commits[k].live THEN w.writeBatch ELSE w.commits[k].batch

\* `writeBatch = []` (lines 183, 187) once commit k has settled: the
\* variable names a new empty array, the other commits keep the old one.
resetWriteBatch(w, k) ==
  LET others == RemoveAt(w.commits, k)
  IN [w EXCEPT
        !.commits = [j \in DOMAIN others |->
                       IF others[j].live
                         THEN [others[j] EXCEPT !.batch = w.writeBatch,
                                                !.live = FALSE]
                         ELSE others[j]],
        !.writeBatch = <<>>]

\* flushBatch of the earlier writer up to its await (lines 177-180).
flushBatchEarlier(w, reason) ==
  IF Len(w.writeBatch) > 0
    THEN [w EXCEPT !.commits = Append(@, bulkInsertBatchEarlier(reason))]
    ELSE IF reason = "stop" THEN [w EXCEPT !.resolved = TRUE] ELSE w

\* After `await bulkInsertBatch` returned count (lines 181-183), then the
\* caller: dbWriterStop resolves the writer's promise (line 205).
flushBatchEarlierOk(w, k, count) ==
  LET c == w.commits[k]
      w1 == [resetWriteBatch(w, k) EXCEPT
               !.stats.saved = @ + count,
               !.store = ApplyRows(@, BuildRows(c.txRows)),
               !.committed = @ (+) SeqToBag(c.txRows)]
  IN IF c.caller = "stop" THEN [w1 EXCEPT !.resolved = TRUE] ELSE w1

\* After `await bulkInsertBatch` threw (lines 184-188): the error is
\* counted and the buffer cleared; what the failed commit was given and
\* what the buffer held go with it.
flushBatchEarlierErr(w, k) ==
  LET c == w.commits[k]
      w1 == [resetWriteBatch(w, k) EXCEPT
               !.stats.errors = @ + 1,
               !.dropped = @ (+) SeqToBag(recordsOf(w, k))
                             (+) SeqToBag(IF c.live THEN <<>> ELSE w.writeBatch)]
  IN IF c.caller = "stop" THEN [w1 EXCEPT !.resolved = TRUE] ELSE w1

\* The interval callback of the earlier writer (lines 193-197).
flushIntervalEarlier(w) ==
  IF Len(w.writeBatch) >= BATCH_SIZE THEN flushBatchEarlier(w, "tick") ELSE w

\* dbWriterStop of the earlier writer (lines 201-206) up to its await.
dbWriterStopEarlier(w) ==
  flushBatchEarlier([w EXCEPT !.timerOn = FALSE, !.stopped = TRUE], "stop")

\* database.ts, per-row variant (lines 37-170): one await of commit k
\* settles.  The loop `for (const record of records)` reads the array's
\* length at every pass, so it visits what was pushed while it ran; after
\* its last pass COMMIT is sent and later pushes are not visited.
bulkInsertBatchPerRowStep(w, k, ok) ==
  LET c == w.commits[k]
      recs == recordsOf(w, k)
  IN CASE c.pc = "connect" ->
            IF ok THEN [w EXCEPT !.commits[k].pc = "begin"]
            ELSE flushBatchEarlierErr(w, k)
       [] c.pc = "begin" ->
            [w EXCEPT !.commits[k].pc = IF ok THEN "insert" ELSE "rollback"]
       [] c.pc = "insert" ->
            IF ok
              THEN [w EXCEPT !.commits[k].txRows = Append(@, recs[c.idx + 1]),
                             !.commits[k].idx = @ + 1,
                             !.commits[k].pc = IF c.idx + 1 < Len(recs)
                                                 THEN "insert" ELSE "commit"]
              ELSE [w EXCEPT !.commits[k].pc = "rollback"]
       [] c.pc = "commit" ->
            IF ok THEN flushBatchEarlierOk(w, k, c.idx)
            ELSE [w EXCEPT !.commits[k].pc = "rollback"]
       [] c.pc = "rollback" -> flushBatchEarlierErr(w, k)

TickEarlier ==
  /\ ~MicrotaskPending
  /\ timerOn
  /\ Len(commits) < MaxInFlight
  /\ SetW(flushIntervalEarlier(CurW))
  /\ UNCHANGED <<cfgVars, fetchVars, startVars, fetchCalls, poolEndCalls,
                 poolVars, mainPc, poolState, signals, appended, sigSnap,
                 waited>>

DbStepEarlier(k, ok) ==
  /\ ~MicrotaskPending
  /\ k \in DOMAIN commits
  /\ SetW(bulkInsertBatchPerRowStep(CurW, k,
            ok /\ (commits[k].pc = "connect" => poolState = "open")))
  /\ UNCHANGED <<cfgVars, fetchVars, startVars, fetchCalls, poolEndCalls,
                 poolVars, mainPc, poolState, signals, appended, sigSnap,
                 waited>>

\* Promise.all(jobPromises) resolved: schema.sql lines 307-317.
MainAfterJobsEarlier ==
  /\ mainPc = "scraping"
  /\ pending = <<>>
  /\ running = {}
  /\ SetW(dbWriterStopEarlier(CurW))
  /\ mainPc' = "awaitWriter"
  /\ UNCHANGED <<cfgVars, fetchVars, startVars, fetchCalls, poolEndCalls,
                 poolVars, poolState, signals, appended, sigSnap, waited>>

\* The runs of the earlier writer: the per-row bulkInsertSnapshots, the
\* size threshold at one record or at BatchSizeCfg.
InitEarlierWriter ==
  /\ CONCURRENCY = ConcurrencyCfg
  /\ BATCH_SIZE \in {1, BatchSizeCfg}
  /\ dbVariant = "perRow"
  /\ running = jobQueueFeed(NumItems).running
  /\ pending = jobQueueFeed(NumItems).pending
  /\ writeBatch = <<>>
  /\ appended = EmptyBag
  /\ stats = [scraped |-> 0, failed |-> 0, saved |-> 0, errors |-> 0]
  /\ InitWriter
  /\ waited = -1
  /\ netVariant = "http"
  /\ InitFetchIdle
  /\ InitStarted(NumItems)

NextEarlierWriter ==
  \/ \E i \in ScenarioItems, outcome \in Outcomes : FetchDone(i, outcome)
  \/ TickEarlier
  \/ \E k \in 1..MaxInFlight, ok \in BOOLEAN : DbStepEarlier(k, ok)
  \/ MainAfterJobsEarlier
  \/ MainAfterWriter
  \/ MainPoolEnded

SpecEarlierWriter == InitEarlierWriter /\ [][NextEarlierWriter]_vars

\* ---------------------------------------------------------------- C40
\* C40: in the earlier writer no appended record is lost: at every moment
\* each record that was appended is still in writeBatch, or in the array of
\* a commit in flight, or was committed, or went with a failed commit.
C40_InFlightAppendNotLost ==
  \A r \in BagToSet(appended) :
     \/ r \in Range(writeBatch)
     \/ \E k \in DOMAIN commits : r \in Range(recordsOf(CurW, k))
     \/ BagIn(r, committed)
     \/ BagIn(r, dropped)

====
